---------------------------- MODULE Spec2Model ----------------------------
(***************************************************************************)
(* Model of the mini-dynamo key-value store: the coordinator's quorum      *)
(* fan-out (internal/replication/coordinator.go), the replicas' internal   *)
(* HTTP handlers (internal/api), the local store's index                   *)
(* (internal/storage), the placement ring (internal/ring) and the hinted   *)
(* handoff buffer with its replay loop (internal/replication/handoff.go).  *)
(*                                                                         *)
(* The specifications share the variables; among them:                     *)
(*   Spec         client operations through the coordinators, the replica  *)
(*                handlers and the asynchronous read repair, from empty    *)
(*                stores;                                                  *)
(*   SpecCall     one client call against replicas in any state, with the  *)
(*                call's parameters and replica answers recorded;          *)
(*   SpecHandoff  the hinted handoff store, its cleanup sweep and the      *)
(*                replay loop of the HandoffManager of node Self;          *)
(*   SpecGossip   the membership lists, detectors and gossip datagrams;    *)
(*   SpecStore    one log store with its file, closed and reopened;        *)
(*   SpecDispatch one client call with its goroutines and its deadline.    *)
(***************************************************************************)
EXTENDS Integers, Sequences, FiniteSets, TLC

\* ------------------------------------------------------------------------
\* Bounds of the model
\* ------------------------------------------------------------------------

\* Wall-clock readings (time.Now()) range over 0..MaxTime.
MaxTime == 1

\* Number of read-repair goroutines that may be outstanding at once.
MaxRepairs == 1

\* Number of HintedHandoffStore.Store calls in one behaviour.
MaxStores == 3

\* In SpecHandoff the wall clock ranges over 0..MaxHintTime.
MaxHintTime == 2

\* The wall clock of the gossip layer runs from 0 to MaxClock.
MaxClock == 3

\* At most MaxInFlight gossip datagrams are in flight.
MaxInFlight == 1

\* The data file of the log store holds at most MaxLog records.
MaxLog == 3

\* The timestamps of the writes to the log store are 1..MaxStamp.
MaxStamp == 3

\* At most MaxRingCalls calls of AddNode and RemoveNode are made on a ring.
MaxRingCalls == 4

\* The components of the vector clocks range over 0..MaxTick.
MaxTick == 2

\* The time a client call is followed for.
MaxElapsed == 3

\* Number of Store calls in one behaviour of SpecReplay.
MaxReplayStores == 1

\* ------------------------------------------------------------------------
\* Program constants and configuration
\* ------------------------------------------------------------------------

\* config.ReplicationFactor, config.ReadQuorum, config.WriteQuorum
ReplicationFactor == 3
ReadQuorum == 2
WriteQuorum == 2

\* config.VirtualNodes (tokens per physical node), scaled down
VirtualNodes == 2

\* the hard-coded attempt cap of deliverPendingHandoffs
AttemptCap == 10

\* maxAge and maxSize of NewHintedHandoffStore
maxAge == 1
maxSize == 2

\* config.SuspectTimeout and config.DeadTimeout, in units of the clock.
suspectTimeout == 1
deadTimeout == 2

\* config.RequestTimeout, the Timeout of the coordinator's http.Client, in
\* units of the time of a client call
RequestTimeout == 2

Nodes == {"n1", "n2", "n3"}

\* The node whose HandoffManager is modelled in SpecHandoff.
Self == "n1"

\* The nodes that clients send their put/get requests to.
ClientNodes == {"n1", "n2"}

Keys == {"k1"}

\* The keys and values of the hinted writes, and the peers they are
\* destined for.
HintKeys == {"k1", "k2"}
HintValues == {"a"}
HintTargets == {"n2"}
Values == {"a", "b"}

\* types.ConsistencyLevel
ConsistencyLevels == {"one", "quorum", "all"}

\* types.NodeState
NodeStates == {"alive", "suspect", "dead"}

VARIABLES
    now,         \* the wall clock read by time.Now()
    nodes,       \* nodes[c][n]: Coordinator.nodes of node c; "none" or the State of n
    vnodes,      \* vnodes[c]: HashRing.vnodes of node c, a sequence of tokens
    nodeVNodes,  \* nodeVNodes[c]: the key set of HashRing.nodeVNodes of node c
    entries,     \* entries[n][k]: the index entry (and record) node n holds for k
    repairs,     \* the running readRepair goroutines
    lastOp,      \* what the most recent client operation returned
    call,        \* SpecCall: the most recent client call and what its replicas answered
    lastPut,     \* per key: the latest write, if it was a Put that met its quorum at level quorum
    hints,       \* HintedHandoffStore.hints of node Self: target -> sequence of hints
    stored,      \* number of Store calls so far
    pass,        \* position of the replay loop of node Self
    delivered,   \* ids of the hints the replay loop delivered to their target
    retired,     \* ids of hints dropped by age, attempt cap or eviction
    members,     \* members[n][p]: MembershipList.members of node n, the entry of p
    peers,       \* peers[n]: the keys of Protocol.peers of node n
    msgs,        \* the gossip datagrams in flight
    detector,    \* detector[n]: the members checkMembers of node n has still to visit
    fired,       \* fired[n]: the onStateChange calls of the latest gossip step of node n
    dataFile,    \* the records of data.db of one Bitcask store, in file order
    index,       \* Bitcask.index of that store: entries and counters
    status,      \* "open", "closed" (after Close) or "failed" (NewBitcask returned an error)
    seen,        \* what Get, Has, Keys and Count returned when the store was closed
    history,     \* per key the latest Put or Delete, and whether timestamps rose strictly
    buffer,      \* the records in Bitcask.writer that no Flush has written to the file
    position,    \* Bitcask.position, counted in records
    cursor,      \* the file offset of Bitcask.dataFile, shared by all its users
    readers,     \* readers[r]: the position of the Get call of goroutine r
    ringCalls,   \* the AddNode and RemoveNode calls made on the ring of node Self
    clocks,      \* clocks[n]: the vector clock of one key in the VectorClockManager of n
    compared,    \* the latest results of Compare on the clocks of the two managers
    sinceCall,   \* the time since the client call in progress was made
    inflight,    \* the client call in progress: its parameters and what it returned
    workers,     \* workers[n]: the goroutine the call started for node n
    heard,       \* the sender of the datagram node Self handled last, and its entry for Self
    issued       \* the writes the readRepair goroutines have issued: node and entry

\* The variables of the gossip layer, of the replicas and of the handoff.
gossipVars == <<members, peers, msgs, detector, fired>>
kvVars == <<entries, repairs, lastOp, call, lastPut>>
handoffVars == <<hints, stored, pass, delivered, retired>>
logVars == <<dataFile, index, status, seen, history>>
readVars == <<buffer, position, cursor, readers>>
ringVars == <<ringCalls>>
clockVars == <<clocks, compared>>
dispatchVars == <<sinceCall, inflight, workers>>
selfVars == <<heard>>
issuedVars == <<issued>>
auxVars == <<readVars, ringVars, clockVars, dispatchVars, selfVars, issuedVars>>

vars == <<now, nodes, vnodes, nodeVNodes, entries, repairs, lastOp, call, lastPut,
          hints, stored, pass, delivered, retired, members, peers, msgs, detector,
          fired, dataFile, index, status, seen, history, buffer, position, cursor,
          readers, ringCalls, clocks, compared, sinceCall, inflight, workers,
          heard, issued>>

\* ------------------------------------------------------------------------
\* Local store: internal/storage/index.go and bitcask.go
\* ------------------------------------------------------------------------

\* An index entry together with the value of the record its Offset points at.
NoEntry == [exists |-> FALSE, Value |-> "", Timestamp |-> 0, IsDeleted |-> FALSE]

\* Index.Put: the entry replaces any prior entry unconditionally.
IndexPut(idx, key, value, timestamp) ==
    [idx EXCEPT ![key] = [exists |-> TRUE, Value |-> value,
                          Timestamp |-> timestamp, IsDeleted |-> FALSE]]

\* Index.Delete: creates a tombstone entry, or flips a live entry to a
\* tombstone with the new timestamp; an entry that already is a tombstone is
\* left as it is.  (The Offset a flipped entry keeps is never read again:
\* Get refuses a tombstone and Compact skips it; so the value is dropped.)
IndexDelete(idx, key, timestamp) ==
    IF ~idx[key].exists
    THEN [idx EXCEPT ![key] = [exists |-> TRUE, Value |-> "",
                               Timestamp |-> timestamp, IsDeleted |-> TRUE]]
    ELSE IF ~idx[key].IsDeleted
         THEN [idx EXCEPT ![key] = [exists |-> TRUE, Value |-> "",
                                    Timestamp |-> timestamp, IsDeleted |-> TRUE]]
         ELSE idx

\* Bitcask.Put: appends the record and points the index at it.
BitcaskPut(idx, key, value, timestamp) == IndexPut(idx, key, value, timestamp)

\* Bitcask.Delete: appends a tombstone record and marks the index entry.
BitcaskDelete(idx, key, timestamp) == IndexDelete(idx, key, timestamp)

\* Bitcask.Get: ErrKeyNotFound, ErrKeyDeleted, or the record read back.
BitcaskGet(idx, key) ==
    IF ~idx[key].exists
    THEN [err |-> "ErrKeyNotFound", Value |-> "", Timestamp |-> 0]
    ELSE IF idx[key].IsDeleted
         THEN [err |-> "ErrKeyDeleted", Value |-> "", Timestamp |-> 0]
         ELSE [err |-> "", Value |-> idx[key].Value,
               Timestamp |-> idx[key].Timestamp]

\* ------------------------------------------------------------------------
\* Replica handlers: internal/api
\* ------------------------------------------------------------------------

\* types.KeyValueEntry
KeyValueEntry(key, value, timestamp, isDeleted) ==
    [Key |-> key, Value |-> value, Timestamp |-> timestamp, IsDeleted |-> isDeleted]

\* Server.handleReplication: applies the entry to the local store as it is.
handleReplication(idx, entry) ==
    IF entry.IsDeleted
    THEN BitcaskDelete(idx, entry.Key, entry.Timestamp)
    ELSE BitcaskPut(idx, entry.Key, entry.Value, entry.Timestamp)

\* A read that produced no entry (nil).
NilResponse == [found |-> FALSE, Value |-> "", Timestamp |-> 0]

\* handleInternalRead answering a tombstone as a found record.
handleInternalReadTombstoneFound(idx, key) ==
    IF ~idx[key].exists THEN NilResponse
    ELSE [found |-> TRUE, Value |-> idx[key].Value, Timestamp |-> idx[key].Timestamp]

\* Server.handleInternalRead: 404 for a missing or tombstoned key, else the
\* record as {key, value, timestamp}.
handleInternalRead(idx, key) ==
    LET r == BitcaskGet(idx, key)
    IN  IF r.err # "" THEN NilResponse
        ELSE [found |-> TRUE, Value |-> r.Value, Timestamp |-> r.Timestamp]

\* ------------------------------------------------------------------------
\* Placement ring: internal/ring/hash_ring.go
\* ------------------------------------------------------------------------

\* fmt.Sprintf("%s#vnode%d", nodeID, i)
vnodeKey(nodeID, i) ==
    CASE nodeID = "n1" /\ i = 0 -> "n1#vnode0"
      [] nodeID = "n1" /\ i = 1 -> "n1#vnode1"
      [] nodeID = "n2" /\ i = 0 -> "n2#vnode0"
      [] nodeID = "n2" /\ i = 1 -> "n2#vnode1"
      [] nodeID = "n3" /\ i = 0 -> "n3#vnode0"
      [] nodeID = "n3" /\ i = 1 -> "n3#vnode1"
      [] OTHER -> "?"

\* hash: the 64-bit murmur3 of a string, here a fixed table over the strings
\* of the model.
hash(s) ==
    CASE s = "n1#vnode0" -> 10
      [] s = "n1#vnode1" -> 60
      [] s = "n2#vnode0" -> 30
      [] s = "n2#vnode1" -> 80
      [] s = "n3#vnode0" -> 50
      [] s = "n3#vnode1" -> 70
      [] s = "k1" -> 20
      [] s = "k2" -> 55
      [] s = "k3" -> 99
      [] s = "k4" -> 45
      [] OTHER -> 0

\* types VNode
VNode(h, nodeID, i) == [Hash |-> h, NodeID |-> nodeID, VNodeIdx |-> i]

\* One insertion step of the sort of AddNode: v goes before the first token
\* with a strictly greater hash.
RECURSIVE InsertSorted(_, _)
InsertSorted(s, v) ==
    IF s = <<>> THEN <<v>>
    ELSE IF v.Hash < Head(s).Hash THEN <<v>> \o s
         ELSE <<Head(s)>> \o InsertSorted(Tail(s), v)

\* The tokens left in the order of their insertion.
SortSkipped(s) == s

\* sort.Slice(r.vnodes, by Hash)
RECURSIVE SortByHash(_)
SortByHash(s) ==
    IF s = <<>> THEN <<>>
    ELSE InsertSorted(SortByHash(SubSeq(s, 1, Len(s) - 1)), s[Len(s)])

\* An AddNode without the check for a node that is already present.
AddNodeUnchecked(ring, nodeID) ==
    [vnodes |-> SortByHash(ring.vnodes \o
                   [i \in 1..VirtualNodes |->
                       VNode(hash(vnodeKey(nodeID, i - 1)), nodeID, i - 1)]),
     nodeVNodes |-> ring.nodeVNodes \cup {nodeID}]

\* HashRing.AddNode on the pair (vnodes, nodeVNodes)
AddNode(ring, nodeID) ==
    IF nodeID \in ring.nodeVNodes THEN ring
    ELSE [vnodes |-> SortByHash(ring.vnodes \o
                       [i \in 1..VirtualNodes |->
                           VNode(hash(vnodeKey(nodeID, i - 1)), nodeID, i - 1)]),
          nodeVNodes |-> ring.nodeVNodes \cup {nodeID}]

\* RemoveNode leaving the ring as it is.
RemoveNodeSkipped(ring, nodeID) == ring

\* HashRing.RemoveNode on the pair (vnodes, nodeVNodes)
RemoveNode(ring, nodeID) ==
    IF nodeID \notin ring.nodeVNodes THEN ring
    ELSE [vnodes |-> SelectSeq(ring.vnodes, LAMBDA vn : vn.NodeID # nodeID),
          nodeVNodes |-> ring.nodeVNodes \ {nodeID}]

\* sort.Search: the first index (1-based) whose token has Hash >= h, or
\* Len + 1.
Search(vn, h) ==
    IF \E i \in 1..Len(vn) : vn[i].Hash >= h
    THEN CHOOSE i \in 1..Len(vn) :
            /\ vn[i].Hash >= h
            /\ \A j \in 1..(i - 1) : vn[j].Hash < h
    ELSE Len(vn) + 1

\* A walk that collects the node of every token it visits.
RECURSIVE WalkEveryToken(_, _, _, _, _)
WalkEveryToken(vn, startIdx, i, n, acc) ==
    IF i >= Len(vn) \/ Len(acc) >= n THEN acc
    ELSE WalkEveryToken(vn, startIdx, i + 1, n,
                        Append(acc, vn[((startIdx - 1 + i) % Len(vn)) + 1].NodeID))

\* The walk of GetNodes: i tokens visited so far, acc the distinct nodes.
RECURSIVE Walk(_, _, _, _, _)
Walk(vn, startIdx, i, n, acc) ==
    IF i >= Len(vn) \/ Len(acc) >= n THEN acc
    ELSE LET idx == ((startIdx - 1 + i) % Len(vn)) + 1
             nodeID == vn[idx].NodeID
         IN  IF \E j \in 1..Len(acc) : acc[j] = nodeID
             THEN Walk(vn, startIdx, i + 1, n, acc)
             ELSE Walk(vn, startIdx, i + 1, n, Append(acc, nodeID))

\* A placement by the hash modulo the number of tokens, not by the walk
\* of the ring.
GetNodeModulo(vn, key) ==
    IF Len(vn) = 0 THEN [err |-> TRUE, node |-> ""]
    ELSE [err |-> FALSE, node |-> vn[(hash(key) % Len(vn)) + 1].NodeID]

\* HashRing.GetNode: the node of the first token at or after the hash of
\* the key, the first token of the list past the end; an error on an empty
\* ring.
GetNode(vn, key) ==
    IF Len(vn) = 0 THEN [err |-> TRUE, node |-> ""]
    ELSE LET s == Search(vn, hash(key))
             idx == IF s > Len(vn) THEN 1 ELSE s
         IN  [err |-> FALSE, node |-> vn[idx].NodeID]

\* GetNodes without the check for an empty ring.
GetNodesUnchecked(vn, key, n) ==
    LET s == Search(vn, hash(key))
        startIdx == IF s > Len(vn) THEN 1 ELSE s
    IN  [err |-> FALSE, nodes |-> Walk(vn, startIdx, 0, n, <<>>)]

\* HashRing.GetNodes: the preference list, <<>> with an error on an empty
\* ring.
GetNodes(vn, key, n) ==
    IF Len(vn) = 0 THEN [err |-> TRUE, nodes |-> <<>>]
    ELSE LET s == Search(vn, hash(key))
             startIdx == IF s > Len(vn) THEN 1 ELSE s
         IN  [err |-> FALSE, nodes |-> Walk(vn, startIdx, 0, n, <<>>)]

\* ------------------------------------------------------------------------
\* Coordinator: internal/replication/coordinator.go
\* ------------------------------------------------------------------------

\* Outcome of one local storage call or one internal RPC:
\*   "ok"    carried out and acknowledged
\*   "fail"  not carried out (storage error, connection refused, deadline)
Outcomes == {"ok", "fail"}

\* The elements of a sequence.
Range(s) == {s[i] : i \in 1..Len(s)}

\* The orders in which a range over the map can yield the set S.
Orders(S) == {o \in [1..Cardinality(S) -> S] : \A t \in S : \E i \in DOMAIN o : o[i] = t}

\* getWriteQuorum with level all asking for the quorum W only.
getWriteQuorumAllAsQuorum(consistency) ==
    CASE consistency = "one" -> 1
      [] OTHER -> WriteQuorum

\* Coordinator.getWriteQuorum
getWriteQuorum(consistency) ==
    CASE consistency = "one" -> 1
      [] consistency = "all" -> ReplicationFactor
      [] OTHER -> WriteQuorum

\* Coordinator.getReadQuorum
getReadQuorum(consistency) ==
    CASE consistency = "one" -> 1
      [] consistency = "all" -> ReplicationFactor
      [] OTHER -> ReadQuorum

\* Coordinator.sendReplication, the return value: false for a node missing
\* from Coordinator.nodes, else whether the target applied the entry and
\* answered 200.
sendReplication(c, nodeID, outcome) ==
    nodes[c][nodeID] # "none" /\ outcome = "ok"

\* Coordinator.replicateToNodes, the results map: the nodes of the
\* preference list whose write succeeded (the local node through
\* storage.Put, the others through sendReplication).
replicateToNodes(c, pref, out) ==
    {n \in Range(pref) : IF n = c THEN out[n] = "ok"
                         ELSE sendReplication(c, n, out[n])}

\* The stores after the writes of replicateToNodes: the local node by
\* storage.Put, a remote node by its replication handler.
replicateEntries(c, results, entry) ==
    [n \in Nodes |->
        IF n \notin results THEN entries[n]
        ELSE IF n = c
             THEN BitcaskPut(entries[n], entry.Key, entry.Value, entry.Timestamp)
             ELSE handleReplication(entries[n], entry)]

\* Coordinator.fetchFromNode: nil for an unknown node, a failed request or
\* a non-200 answer.
fetchFromNode(c, nodeID, key, outcome) ==
    IF nodes[c][nodeID] = "none" \/ outcome # "ok" THEN NilResponse
    ELSE handleInternalRead(entries[nodeID], key)

\* Coordinator.readFromNodes: one response per entry of the preference
\* list, in its order.
readFromNodes(c, pref, key, out) ==
    [i \in 1..Len(pref) |->
        IF pref[i] = c
        THEN LET r == BitcaskGet(entries[c], key)
             IN  IF out[c] = "ok" /\ r.err = ""
                 THEN [found |-> TRUE, Value |-> r.Value, Timestamp |-> r.Timestamp]
                 ELSE NilResponse
        ELSE fetchFromNode(c, pref[i], key, out[pref[i]])]

\* What a client operation returned: ret is "ok" or the error, Value and
\* Timestamp the entry a Get returned.
NoOp == [op |-> "none", key |-> "", ret |-> "", Value |-> "", Timestamp |-> 0]

\* The record of a client call: the operation, the node it was sent to, the
\* key, value and level, the preference list GetNodes gave, and per node
\* whether its storage call or RPC was carried out.
NoCall == [op |-> "none", coord |-> "", key |-> "", Value |-> "", level |-> "",
           pref |-> <<>>, out |-> [n \in Nodes |-> "fail"]]

\* The call record of Coordinator.Put and Coordinator.Get at node c.
CallOf(op, c, key, value, consistency, out) ==
    [op |-> op, coord |-> c, key |-> key, Value |-> value, level |-> consistency,
     pref |-> GetNodes(vnodes[c], key, ReplicationFactor).nodes, out |-> out]

NoPut == [exists |-> FALSE, Value |-> "", Timestamp |-> 0]

\* Coordinator.RegisterNode: records the node and adds it to the ring.
RegisterNode(c, nodeID, state) ==
    /\ nodes' = [nodes EXCEPT ![c][nodeID] = state]
    /\ nodes' # nodes
    /\ \E ring \in {AddNode([vnodes |-> vnodes[c], nodeVNodes |-> nodeVNodes[c]], nodeID)} :
           /\ vnodes' = [vnodes EXCEPT ![c] = ring.vnodes]
           /\ nodeVNodes' = [nodeVNodes EXCEPT ![c] = ring.nodeVNodes]
    /\ UNCHANGED <<gossipVars, logVars, auxVars, now, entries, repairs, lastOp, call, lastPut, hints, stored,
                   pass, delivered, retired>>

\* Coordinator.Put at node c, from the preference list pl on: fan-out and
\* count of the successes.
PutOn(c, key, value, consistency, out, pl) ==
    /\ IF pl.err
         THEN /\ lastOp' = [NoOp EXCEPT !.op = "put", !.key = key, !.ret = "ring_empty"]
              /\ UNCHANGED <<entries, lastPut>>
         ELSE \E results \in {replicateToNodes(c, pl.nodes, out)} :
                LET timestamp == now
                    requiredAcks == getWriteQuorum(consistency)
                    entry == KeyValueEntry(key, value, timestamp, FALSE)
                    successCount == Cardinality(results)
                    ret == IF successCount < requiredAcks THEN "quorum_failed" ELSE "ok"
                IN  /\ entries' = replicateEntries(c, results, entry)
                    /\ lastOp' = [NoOp EXCEPT !.op = "put", !.key = key, !.ret = ret]
                    /\ lastPut' = [lastPut EXCEPT ![key] =
                                      IF /\ ret = "ok"
                                         /\ consistency = "quorum"
                                         /\ Len(pl.nodes) = ReplicationFactor
                                      THEN [exists |-> TRUE, Value |-> value,
                                            Timestamp |-> timestamp]
                                      ELSE NoPut]
    /\ UNCHANGED <<gossipVars, logVars, auxVars, now, nodes, vnodes, nodeVNodes, repairs, hints, stored,
                   pass, delivered, retired>>

\* Coordinator.Put at node c: timestamp, preference list, fan-out, count.
Put(c, key, value, consistency, out) ==
    \E pl \in {GetNodes(vnodes[c], key, ReplicationFactor)} :
        PutOn(c, key, value, consistency, out, pl)

\* The found responses of a read, in response order.
successfulResponses(responses) == SelectSeq(responses, LAMBDA r : r.found)

\* Element 0 without the sort: any found response.
LatestUnsorted(found) == Range(found)

\* sort.Slice by descending Timestamp, then element 0: a found response of
\* maximal timestamp (the sort is not stable, so any of them).
Latest(found) ==
    {found[i] : i \in {j \in 1..Len(found) :
                        \A l \in 1..Len(found) : found[j].Timestamp >= found[l].Timestamp}}

\* Coordinator.Get at node c, from the preference list pl on: fan-out,
\* quorum check, the latest response, and the read-repair goroutine it
\* starts.
GetOn(c, key, consistency, out, pl) ==
    /\ IF pl.err
         THEN /\ lastOp' = [NoOp EXCEPT !.op = "get", !.key = key, !.ret = "ring_empty"]
              /\ UNCHANGED repairs
         ELSE \E responses \in {readFromNodes(c, pl.nodes, key, out)} :
              \E found \in {successfulResponses(responses)} :
              \E base \in {[NoOp EXCEPT !.op = "get", !.key = key]} :
                IF Len(found) < getReadQuorum(consistency)
                THEN /\ lastOp' = [base EXCEPT !.ret = "not_found"]
                     /\ UNCHANGED repairs
                ELSE /\ Cardinality(repairs) < MaxRepairs
                     /\ \E latest \in Latest(found) :
                          /\ lastOp' = [base EXCEPT !.ret = "ok",
                                                    !.Value = latest.Value,
                                                    !.Timestamp = latest.Timestamp]
                          /\ repairs' = repairs \cup
                                {[coord |-> c, todo |-> pl.nodes,
                                  latest |-> KeyValueEntry(key, latest.Value,
                                                           latest.Timestamp, FALSE)]}
    /\ UNCHANGED <<gossipVars, logVars, auxVars, now, nodes, vnodes, nodeVNodes, entries, lastPut, hints,
                   stored, pass, delivered, retired>>

\* Coordinator.Get at node c: the preference list, then the above.
Get(c, key, consistency, out) ==
    \E pl \in {GetNodes(vnodes[c], key, ReplicationFactor)} :
        GetOn(c, key, consistency, out, pl)

\* Coordinator.readRepair, the local branch: the winner is written unless
\* the local record is newer, or as new with the same value.
repairLocal(idx, latest) ==
    LET r == BitcaskGet(idx, latest.Key)
    IN  IF r.err # "" \/ r.Timestamp < latest.Timestamp
        THEN BitcaskPut(idx, latest.Key, latest.Value, latest.Timestamp)
        ELSE IF r.Timestamp = latest.Timestamp /\ r.Value # latest.Value
             THEN BitcaskPut(idx, latest.Key, latest.Value, latest.Timestamp)
             ELSE idx

\* The remote branch of readRepair sending nothing.
repairRemoteSkipped(c, nodeID, idx, latest, outcome) == idx

\* The writes one iteration of the loop of Coordinator.readRepair issues
\* for the node nodeID: storage.Put at the local node under the conditions
\* of the local branch, a replication request to a remote node that the
\* coordinator knows.
repairWrites(c, nodeID, idx, latest) ==
    IF nodeID = c
    THEN LET r == BitcaskGet(idx, latest.Key)
         IN  IF \/ r.err # "" \/ r.Timestamp < latest.Timestamp
                \/ (r.Timestamp = latest.Timestamp /\ r.Value # latest.Value)
             THEN {[to |-> nodeID, Entry |-> latest]}
             ELSE {}
    ELSE IF nodes[c][nodeID] # "none" THEN {[to |-> nodeID, Entry |-> latest]} ELSE {}

\* Coordinator.readRepair, the remote branch: the winner is sent to the
\* node whatever it answered.
repairRemote(c, nodeID, idx, latest, outcome) ==
    IF sendReplication(c, nodeID, outcome)
    THEN handleReplication(idx, latest)
    ELSE idx

\* One iteration of the loop of Coordinator.readRepair of goroutine r, what
\* it does to the stores and to the goroutine.
repaired(r, outcome) ==
    /\ r \in repairs
    /\ LET nodeID == Head(r.todo)
           rest == Tail(r.todo)
       IN  /\ entries' = [entries EXCEPT ![nodeID] =
                             IF nodeID = r.coord
                             THEN repairLocal(entries[nodeID], r.latest)
                             ELSE repairRemote(r.coord, nodeID, entries[nodeID],
                                               r.latest, outcome)]
           /\ repairs' = (repairs \ {r}) \cup
                            (IF rest = <<>> THEN {} ELSE {[r EXCEPT !.todo = rest]})

\* One iteration of the loop of Coordinator.readRepair of goroutine r.
readRepair(r, outcome) ==
    /\ repaired(r, outcome)
    /\ UNCHANGED <<gossipVars, logVars, auxVars, now, nodes, vnodes, nodeVNodes, lastOp, call, lastPut, hints,
                   stored, pass, delivered, retired>>

\* Server.handleDelete at node n: a tombstone in the local store of n only.
handleDelete(n, key) ==
    LET timestamp == now
    IN  /\ entries' = [entries EXCEPT ![n] = BitcaskDelete(entries[n], key, timestamp)]
        /\ lastOp' = [NoOp EXCEPT !.op = "delete", !.key = key, !.ret = "ok"]
        /\ lastPut' = [lastPut EXCEPT ![key] = NoPut]
        /\ UNCHANGED <<gossipVars, logVars, auxVars, now, nodes, vnodes, nodeVNodes, repairs, hints, stored,
                       pass, delivered, retired>>

\* The wall clock advances, up to max.
Tick(max) ==
    /\ now < max
    /\ now' = now + 1
    /\ UNCHANGED <<gossipVars, logVars, auxVars, nodes, vnodes, nodeVNodes, entries, repairs, lastOp, call,
                   lastPut, hints, stored, pass, delivered, retired>>

\* ------------------------------------------------------------------------
\* The log store with its file: internal/storage/bitcask.go, index.go
\* ------------------------------------------------------------------------

LogKeys == {"k1", "k2"}
LogValues == {"a", "b"}

\* IndexEntry of a key that is not in the map.
NoIndexEntry == [exists |-> FALSE, Offset |-> 0, Timestamp |-> 0, IsDeleted |-> FALSE]

\* NewIndex
NewIndex == [entries |-> [k \in LogKeys |-> NoIndexEntry], active |-> 0, deleted |-> 0]

\* Index.Put that keeps the offset of a key it already holds.
IndexPutFirstOffset(idx, key, offset, timestamp) ==
    LET existing == idx.entries[key]
    IN  [entries |-> [idx.entries EXCEPT ![key] =
                        [exists |-> TRUE,
                         Offset |-> IF existing.exists /\ ~existing.IsDeleted
                                    THEN existing.Offset ELSE offset,
                         Timestamp |-> timestamp,
                         IsDeleted |-> FALSE]],
         active |-> IF ~existing.exists THEN idx.active + 1 ELSE idx.active,
         deleted |-> IF existing.exists /\ existing.IsDeleted THEN idx.deleted - 1
                     ELSE idx.deleted]

\* Index.Put with the offset of the record, and the counters it keeps.
IndexPutOffset(idx, key, offset, timestamp) ==
    LET existing == idx.entries[key]
    IN  [entries |-> [idx.entries EXCEPT ![key] =
                        [exists |-> TRUE, Offset |-> offset, Timestamp |-> timestamp,
                         IsDeleted |-> FALSE]],
         active |-> IF existing.exists /\ existing.IsDeleted THEN idx.active
                    ELSE IF ~existing.exists THEN idx.active + 1
                    ELSE idx.active,
         deleted |-> IF existing.exists /\ existing.IsDeleted THEN idx.deleted - 1
                     ELSE idx.deleted]

\* Index.Delete, and the counters it keeps.
IndexDeleteEntry(idx, key, timestamp) ==
    LET entry == idx.entries[key]
    IN  IF ~entry.exists
        THEN [idx EXCEPT !.entries[key] = [exists |-> TRUE, Offset |-> 0,
                                           Timestamp |-> timestamp, IsDeleted |-> TRUE],
                         !.deleted = @ + 1]
        ELSE IF ~entry.IsDeleted
             THEN [idx EXCEPT !.entries[key].IsDeleted = TRUE,
                              !.entries[key].Timestamp = timestamp,
                              !.active = @ - 1,
                              !.deleted = @ + 1]
             ELSE idx

\* Index.Has, Index.Keys, Index.Count.  Keys makes its slice with capacity
\* stats.active, which panics when the counter is negative.
IndexHas(idx, key) == idx.entries[key].exists /\ ~idx.entries[key].IsDeleted
IndexKeys(idx) ==
    IF idx.active < 0 THEN [panic |-> TRUE, keys |-> {}]
    ELSE [panic |-> FALSE,
          keys |-> {k \in LogKeys : idx.entries[k].exists /\ ~idx.entries[k].IsDeleted}]
IndexCount(idx) == idx.active

\* The record writeEntry appends; state is "ok" for a whole record with a
\* matching CRC, "corrupt" for one whose CRC does not match, "partial" for
\* one cut short.
LogRecord(key, value, timestamp, isDeleted) ==
    [Key |-> key, Value |-> value, Timestamp |-> timestamp, IsDeleted |-> isDeleted,
     state |-> "ok"]

\* Bitcask.readEntry at the record with the given offset (offsets count
\* records from 1).
readEntry(file, offset) ==
    IF offset > Len(file) THEN [err |-> "EOF", entry |-> LogRecord("", "", 0, FALSE)]
    ELSE IF file[offset].state = "partial"
         THEN [err |-> "unexpected_eof", entry |-> LogRecord("", "", 0, FALSE)]
         ELSE IF file[offset].state = "corrupt"
              THEN [err |-> "corrupt_data", entry |-> LogRecord("", "", 0, FALSE)]
              ELSE [err |-> "", entry |-> file[offset]]

\* The loop of Bitcask.rebuildIndex from the given offset on.
RECURSIVE rebuildFrom(_, _, _)
rebuildFrom(file, offset, idx) ==
    LET r == readEntry(file, offset)
    IN  IF r.err = "EOF" THEN [err |-> "", index |-> idx]
        ELSE IF r.err # "" THEN [err |-> r.err, index |-> idx]
        ELSE rebuildFrom(file, offset + 1,
                IF r.entry.IsDeleted
                THEN IndexDeleteEntry(idx, r.entry.Key, r.entry.Timestamp)
                ELSE IndexPutOffset(idx, r.entry.Key, offset, r.entry.Timestamp))

\* rebuildIndex replaying a tombstone as a live record.
rebuildIndexTombstoneAsPut(file) ==
    [err |-> "",
     index |-> [NewIndex EXCEPT !.entries = [k \in LogKeys |->
                  IF \E i \in 1..Len(file) : file[i].Key = k
                  THEN LET i == CHOOSE j \in 1..Len(file) :
                                   /\ file[j].Key = k
                                   /\ \A l \in (j + 1)..Len(file) : file[l].Key # k
                       IN  [exists |-> TRUE, Offset |-> i,
                            Timestamp |-> file[i].Timestamp, IsDeleted |-> FALSE]
                  ELSE NoIndexEntry]]]

\* Bitcask.rebuildIndex
rebuildIndex(file) == rebuildFrom(file, 1, NewIndex)

\* Bitcask.Get on the index and file.
StoreGet(idx, file, key) ==
    IF ~idx.entries[key].exists THEN [err |-> "not_found", Value |-> "", Timestamp |-> 0]
    ELSE IF idx.entries[key].IsDeleted
         THEN [err |-> "deleted", Value |-> "", Timestamp |-> 0]
         ELSE LET r == readEntry(file, idx.entries[key].Offset)
              IN  IF r.err # ""
                  THEN [err |-> "read_failed", Value |-> "", Timestamp |-> 0]
                  ELSE [err |-> "", Value |-> r.entry.Value,
                        Timestamp |-> r.entry.Timestamp]

\* What Get, Has, Keys and Count return on the index and file.
Observe(idx, file) ==
    [get |-> [k \in LogKeys |-> StoreGet(idx, file, k)],
     has |-> [k \in LogKeys |-> IndexHas(idx, k)],
     keys |-> IndexKeys(idx),
     count |-> IndexCount(idx)]

\* The latest operation on a key, none yet.
NoWrite == [op |-> "none", Value |-> "", Timestamp |-> 0]

\* The record of the operations: per key the latest one, the timestamp of
\* the latest of all, and whether every timestamp was above the one before.
Noted(op, key, value, timestamp) ==
    [ops |-> [history.ops EXCEPT ![key] =
                 [op |-> op, Value |-> value, Timestamp |-> timestamp]],
     stamp |-> timestamp,
     ordered |-> history.ordered /\ timestamp > history.stamp]

\* Bitcask.Put
StorePut(key, value, timestamp) ==
    /\ status = "open"
    /\ Len(dataFile) < MaxLog
    /\ dataFile' = Append(dataFile, LogRecord(key, value, timestamp, FALSE))
    /\ index' = IndexPutOffset(index, key, Len(dataFile) + 1, timestamp)
    /\ history' = Noted("put", key, value, timestamp)
    /\ UNCHANGED <<now, nodes, vnodes, nodeVNodes, kvVars, handoffVars, gossipVars,
                   auxVars,
                   status, seen>>

\* Bitcask.Delete
StoreDelete(key, timestamp) ==
    /\ status = "open"
    /\ Len(dataFile) < MaxLog
    /\ dataFile' = Append(dataFile, LogRecord(key, "", timestamp, TRUE))
    /\ index' = IndexDeleteEntry(index, key, timestamp)
    /\ history' = Noted("delete", key, "", timestamp)
    /\ UNCHANGED <<now, nodes, vnodes, nodeVNodes, kvVars, handoffVars, gossipVars,
                   auxVars,
                   status, seen>>

\* The keys the loop of Compact copies: the entries of Index.All that are
\* not tombstones.
LiveKeys(idx) == {k \in LogKeys : idx.entries[k].exists /\ ~idx.entries[k].IsDeleted}

\* The file Compact writes for the live keys in the order of its loop, and
\* the index it builds.
RECURSIVE compactInto(_, _, _)
compactInto(order, file, idx) ==
    IF order = <<>> THEN [file |-> file, index |-> idx]
    ELSE LET key == Head(order)
             r == readEntry(dataFile, index.entries[key].Offset)
         IN  compactInto(Tail(order),
                Append(file, LogRecord(key, r.entry.Value, r.entry.Timestamp, FALSE)),
                IndexPutOffset(idx, key, Len(file) + 1, r.entry.Timestamp))

\* Bitcask.Compact, order being the order in which the loop meets the live
\* keys.
Compact(order) ==
    /\ status = "open"
    /\ order \in Orders(LiveKeys(index))
    /\ \E c \in {compactInto(order, <<>>, NewIndex)} :
          /\ dataFile' = c.file
          /\ index' = c.index
    /\ <<dataFile', index'>> # <<dataFile, index>>
    /\ UNCHANGED <<now, nodes, vnodes, nodeVNodes, kvVars, handoffVars, gossipVars,
                   auxVars,
                   status, seen, history>>

\* Bitcask.Close; what the store returned just before is kept.
Close ==
    /\ status = "open"
    /\ status' = "closed"
    /\ seen' = Observe(index, dataFile)
    /\ UNCHANGED <<now, nodes, vnodes, nodeVNodes, kvVars, handoffVars, gossipVars,
                   auxVars,
                   dataFile, index, history>>

\* NewBitcask on the data directory of a closed store.
NewBitcask ==
    /\ status = "closed"
    /\ \E r \in {IF Len(dataFile) > 0 THEN rebuildIndex(dataFile)
                 ELSE [err |-> "", index |-> NewIndex]} :
          IF r.err # ""
          THEN status' = "failed" /\ UNCHANGED index
          ELSE status' = "open" /\ index' = r.index
    /\ UNCHANGED <<now, nodes, vnodes, nodeVNodes, kvVars, handoffVars, gossipVars,
                   auxVars,
                   dataFile, seen, history>>

\* A store no test has opened.
NoObservation == Observe(NewIndex, <<>>)

NoHistory == [ops |-> [k \in LogKeys |-> NoWrite], stamp |-> 0, ordered |-> TRUE]

\* The log store left out.
LogIdle ==
    /\ dataFile = <<>>
    /\ index = NewIndex
    /\ status = "closed"
    /\ seen = NoObservation
    /\ history = NoHistory

\* The goroutines that call Get.
Readers == {"r1", "r2"}

\* The nodes whose VectorClockManager is modelled.
Managers == {"n1", "n2"}

\* make(types.VectorClock): the clock with no component.
NoClock == [n \in {} |-> 0]

\* Compare not called since the clocks last changed.
NoCompare == [done |-> FALSE, result |-> 0, reverse |-> 0]

\* A goroutine that is not inside a Get call, and has made none.
NoGet == [pc |-> "idle", Key |-> "", Offset |-> 0, err |-> "none", Value |-> "",
          Timestamp |-> 0]

\* No client call in progress.
NoDispatch == [op |-> "none", coord |-> "", key |-> "", Value |-> "", level |-> "",
               pref |-> <<>>, timestamp |-> 0, ret |-> "", at |-> 0]

\* No goroutine started for the node: pc is "idle", "pending" (started, not
\* returned), "ok" or "fail" (returned, with that result); resp is the entry
\* a read goroutine stored in responses.
IdleWorker == [pc |-> "idle", resp |-> [found |-> FALSE, Value |-> "", Timestamp |-> 0]]

\* Node Self has handled no datagram.
NoDatagram == [FromNode |-> "", self |-> [known |-> FALSE, State |-> "", LastSeen |-> 0]]

\* No concurrent readers; every write is flushed at once; no call on the
\* ring recorded; no client call in progress; no datagram handled.
AuxIdle ==
    /\ buffer = <<>>
    /\ position = 0
    /\ cursor = 0
    /\ readers = [r \in Readers |-> NoGet]
    /\ ringCalls = <<>>
    /\ clocks = [n \in Managers |-> NoClock]
    /\ compared = NoCompare
    /\ sinceCall = 0
    /\ inflight = NoDispatch
    /\ workers = [n \in Nodes |-> IdleWorker]
    /\ heard = NoDatagram
    /\ issued = {}

\* ------------------------------------------------------------------------
\* Specification of the coordinators and replicas
\* ------------------------------------------------------------------------

EmptyRing == [vnodes |-> <<>>, nodeVNodes |-> {}]

\* A membership entry that is absent from the map.
NoMember == [known |-> FALSE, State |-> "alive", LastHeartbeat |-> 0]

\* The gossip layer left out: no members, no peers, no datagrams.
GossipIdle ==
    /\ members = [n \in Nodes |-> [p \in Nodes |-> NoMember]]
    /\ peers = [n \in Nodes |-> {}]
    /\ msgs = {}
    /\ detector = [n \in Nodes |-> <<>>]
    /\ fired = [n \in Nodes |-> <<>>]

IdlePass == [pc |-> "idle", targets |-> <<>>, target |-> "", hints |-> <<>>]

\* The ring after AddNode of every node of the sequence s.
RECURSIVE RingOf(_)
RingOf(s) == IF s = <<>> THEN EmptyRing
             ELSE AddNode(RingOf(SubSeq(s, 1, Len(s) - 1)), s[Len(s)])

\* A cluster of three nodes, each started by main and each with the other
\* two registered at its coordinator (RegisterNode); the stores are empty,
\* the handoff store is empty and its loop idle.
Init ==
    /\ now = 0
    /\ nodes = [c \in Nodes |-> [n \in Nodes |-> "alive"]]
    /\ vnodes = [c \in Nodes |-> RingOf(<<"n1", "n2", "n3">>).vnodes]
    /\ nodeVNodes = [c \in Nodes |-> RingOf(<<"n1", "n2", "n3">>).nodeVNodes]
    /\ entries = [n \in Nodes |-> [k \in Keys |-> NoEntry]]
    /\ repairs = {}
    /\ lastOp = NoOp
    /\ call = NoCall
    /\ lastPut = [k \in Keys |-> NoPut]
    /\ hints = [n \in Nodes |-> <<>>]
    /\ stored = 0
    /\ pass = IdlePass
    /\ delivered = {}
    /\ retired = {}
    /\ GossipIdle
    /\ LogIdle
    /\ AuxIdle

Next ==
    \/ \E c \in ClientNodes, k \in Keys :
         \E pl \in {GetNodes(vnodes[c], k, ReplicationFactor)} :
           \E v \in Values, l \in ConsistencyLevels, out \in [Nodes -> Outcomes] :
              PutOn(c, k, v, l, out, pl) /\ UNCHANGED call
    \/ \E c \in ClientNodes, k \in Keys :
         \E pl \in {GetNodes(vnodes[c], k, ReplicationFactor)} :
           \E l \in ConsistencyLevels, out \in [Nodes -> Outcomes] :
              GetOn(c, k, l, out, pl) /\ UNCHANGED call
    \/ \E r \in repairs, o \in Outcomes : readRepair(r, o)
    \/ \E n \in ClientNodes, k \in Keys : handleDelete(n, k) /\ UNCHANGED call
    \/ Tick(MaxTime)

Spec == Init /\ [][Next]_vars

\* ------------------------------------------------------------------------
\* Specification of one client call against replicas in any state
\* ------------------------------------------------------------------------

\* What a store can hold for a key: nothing, a live record or a tombstone.
StoredEntries ==
    {NoEntry}
    \cup {[exists |-> TRUE, Value |-> v, Timestamp |-> t, IsDeleted |-> FALSE] :
             v \in Values, t \in 0..MaxTime}
    \cup {[exists |-> TRUE, Value |-> "", Timestamp |-> t, IsDeleted |-> TRUE] :
             t \in 0..MaxTime}

\* The nodes c has registered, in the order they were registered.
Registered(reg, c) == SelectSeq(<<"n1", "n2", "n3">>, LAMBDA n : reg[c][n] # "none")

\* Every node has registered itself (main) and, of the peers of Self, those
\* of the set R (RegisterNode); the stores hold any records; no call has
\* been made.
InitCall ==
    /\ now \in 0..MaxTime
    /\ \E R \in SUBSET (Nodes \ {Self}) :
          nodes = [c \in Nodes |-> [n \in Nodes |->
                      IF n = c \/ n \in R THEN "alive" ELSE "none"]]
    /\ vnodes = [c \in Nodes |-> RingOf(Registered(nodes, c)).vnodes]
    /\ nodeVNodes = [c \in Nodes |-> RingOf(Registered(nodes, c)).nodeVNodes]
    /\ entries \in [Nodes -> [Keys -> StoredEntries]]
    /\ repairs = {}
    /\ lastOp = NoOp
    /\ call = NoCall
    /\ lastPut = [k \in Keys |-> NoPut]
    /\ hints = [n \in Nodes |-> <<>>]
    /\ stored = 0
    /\ pass = IdlePass
    /\ delivered = {}
    /\ retired = {}
    /\ GossipIdle
    /\ LogIdle
    /\ AuxIdle

NextCall ==
    \/ /\ call.op = "none"
       /\ \E c \in ClientNodes, k \in Keys, v \in Values, l \in ConsistencyLevels,
             out \in [Nodes -> Outcomes] :
               Put(c, k, v, l, out) /\ call' = CallOf("put", c, k, v, l, out)
    \/ /\ call.op = "none"
       /\ \E c \in ClientNodes, k \in Keys, l \in ConsistencyLevels,
             out \in [Nodes -> Outcomes] :
               Get(c, k, l, out) /\ call' = CallOf("get", c, k, "", l, out)
    \/ /\ call.op = "none"
       /\ \E n \in ClientNodes, k \in Keys, l \in ConsistencyLevels :
               /\ handleDelete(n, k)
               /\ call' = [NoCall EXCEPT !.op = "delete", !.coord = n, !.key = k,
                                         !.level = l]

SpecCall == InitCall /\ [][NextCall]_vars

\* ------------------------------------------------------------------------
\* Specification of one client call and the read repair it starts
\* ------------------------------------------------------------------------

\* One iteration of a running readRepair goroutine; the nodes that the
\* call could reach are the nodes its repair can reach.
RepairStep ==
    \E r \in repairs : readRepair(r, call.out[Head(r.todo)])

NextRepair ==
    \/ NextCall
    \/ RepairStep

\* A started goroutine runs to its end.
SpecRepair == InitCall /\ [][NextRepair]_vars /\ WF_vars(RepairStep)

\* ------------------------------------------------------------------------
\* Specification of one client call and the writes of its read repair
\* ------------------------------------------------------------------------

\* One iteration of a running readRepair goroutine, with the write it
\* issues noted.
RepairWrite ==
    \E r \in repairs :
        /\ repaired(r, call.out[Head(r.todo)])
        /\ issued' = issued \cup repairWrites(r.coord, Head(r.todo),
                                              entries[Head(r.todo)], r.latest)
        /\ UNCHANGED <<gossipVars, logVars, readVars, ringVars, clockVars, dispatchVars,
                       selfVars, now, nodes, vnodes, nodeVNodes, lastOp, call, lastPut,
                       hints, stored, pass, delivered, retired>>

NextRepairWrites ==
    \/ NextCall
    \/ RepairWrite

SpecRepairWrites == InitCall /\ [][NextRepairWrites]_vars

\* ------------------------------------------------------------------------
\* Specification of one client call at a coordinator that is being set up
\* ------------------------------------------------------------------------

\* NewCoordinator at every node: no node registered, the rings empty, the
\* stores empty.
InitBootstrap ==
    /\ now = 0
    /\ nodes = [c \in Nodes |-> [n \in Nodes |-> "none"]]
    /\ vnodes = [c \in Nodes |-> <<>>]
    /\ nodeVNodes = [c \in Nodes |-> {}]
    /\ entries = [n \in Nodes |-> [k \in Keys |-> NoEntry]]
    /\ repairs = {}
    /\ lastOp = NoOp
    /\ call = NoCall
    /\ lastPut = [k \in Keys |-> NoPut]
    /\ hints = [n \in Nodes |-> <<>>]
    /\ stored = 0
    /\ pass = IdlePass
    /\ delivered = {}
    /\ retired = {}
    /\ GossipIdle
    /\ LogIdle
    /\ AuxIdle

\* Nodes are registered at the coordinators, and one client call is made.
NextBootstrap ==
    \/ /\ call.op = "none"
       /\ \E c \in ClientNodes, nodeID \in Nodes : RegisterNode(c, nodeID, "alive")
    \/ /\ call.op = "none"
       /\ \E c \in ClientNodes, k \in Keys, v \in Values, l \in ConsistencyLevels,
             out \in [Nodes -> Outcomes] :
               Put(c, k, v, l, out) /\ call' = CallOf("put", c, k, v, l, out)
    \/ /\ call.op = "none"
       /\ \E c \in ClientNodes, k \in Keys, l \in ConsistencyLevels,
             out \in [Nodes -> Outcomes] :
               Get(c, k, l, out) /\ call' = CallOf("get", c, k, "", l, out)

SpecBootstrap == InitBootstrap /\ [][NextBootstrap]_vars

\* ------------------------------------------------------------------------
\* Hinted handoff: internal/replication/handoff.go
\* ------------------------------------------------------------------------

\* types.HintedHandoff; id numbers the Store calls and is not a field of
\* the program.
HintedHandoff(id, entry, createdAt) ==
    [id |-> id, Entry |-> entry, CreatedAt |-> createdAt, Attempts |-> 0]

\* The ids of a sequence of hints.
Ids(hs) == {hs[i].id : i \in 1..Len(hs)}

\* Store on a queue without a limit.
StoreUnbounded(targetNode, entry) ==
    /\ stored < MaxStores
    /\ hints' = [hints EXCEPT ![targetNode] =
                    Append(@, HintedHandoff(stored + 1, entry, now))]
    /\ stored' = stored + 1
    /\ UNCHANGED <<gossipVars, logVars, auxVars, now, nodes, vnodes, nodeVNodes, entries, repairs, lastOp, call,
                   lastPut, pass, delivered, retired>>

\* HintedHandoffStore.Store: appends the hint, dropping the oldest one of
\* the target when the target already has maxSize hints.
Store(targetNode, entry) ==
    /\ stored < MaxStores
    /\ LET hint == HintedHandoff(stored + 1, entry, now)
           old == hints[targetNode]
           kept == IF Len(old) >= maxSize THEN Tail(old) ELSE old
       IN  /\ hints' = [hints EXCEPT ![targetNode] = Append(kept, hint)]
           /\ retired' = retired \cup (Ids(old) \ Ids(kept))
    /\ stored' = stored + 1
    /\ UNCHANGED <<gossipVars, logVars, auxVars, now, nodes, vnodes, nodeVNodes, entries, repairs, lastOp, call,
                   lastPut, pass, delivered>>

\* HintedHandoffStore.GetHints: a copy of the hints of the target.
GetHints(targetNode) == hints[targetNode]

\* HintedHandoffStore.RemoveHint: drops every hint of the target that
\* carries the key.
RemoveHint(hs, targetNode, key) ==
    [hs EXCEPT ![targetNode] = SelectSeq(hs[targetNode], LAMBDA h : h.Entry.Key # key)]

\* HintedHandoffStore.IncrementAttempts: counts an attempt on the first hint
\* of the target that carries the key.
IncrementAttempts(hs, targetNode, key) ==
    LET at == {i \in 1..Len(hs[targetNode]) : hs[targetNode][i].Entry.Key = key}
    IN  IF at = {} THEN hs
        ELSE LET i == CHOOSE j \in at : \A l \in at : j <= l
             IN  [hs EXCEPT ![targetNode][i].Attempts = @ + 1]

\* HintedHandoffStore.GetAllTargets: the targets with pending hints.
GetAllTargets == {t \in Nodes : hints[t] # <<>>}

\* HintedHandoffStore.cleanup: keeps the hints younger than maxAge.
cleanup ==
    /\ hints' = [t \in Nodes |->
                    SelectSeq(hints[t], LAMBDA h : now - h.CreatedAt < maxAge)]
    /\ retired' = retired \cup
                     UNION {Ids(hints[t]) \ Ids(hints'[t]) : t \in Nodes}
    /\ UNCHANGED <<gossipVars, logVars, auxVars, now, nodes, vnodes, nodeVNodes, entries, repairs, lastOp, call,
                   lastPut, stored, pass, delivered>>

\* deliverPendingHandoffs, entry: the targets are read once, in map order.
PassStart ==
    /\ pass.pc = "idle"
    /\ \E o \in Orders(GetAllTargets) :
          pass' = [pc |-> "targets", targets |-> o, target |-> "", hints |-> <<>>]
    /\ UNCHANGED <<gossipVars, logVars, auxVars, now, nodes, vnodes, nodeVNodes, entries, repairs, lastOp, call,
                   lastPut, hints, stored, delivered, retired>>

\* deliverPendingHandoffs, one iteration of the outer loop: a target that
\* is not registered as alive is skipped, else its hints are copied.
NextTarget ==
    /\ pass.pc = "targets"
    /\ IF pass.targets = <<>>
       THEN pass' = IdlePass
       ELSE LET targetNode == Head(pass.targets)
                nodeAlive == nodes[Self][targetNode] = "alive"
            IN  IF ~nodeAlive
                THEN pass' = [pass EXCEPT !.targets = Tail(pass.targets)]
                ELSE pass' = [pc |-> "hints", targets |-> Tail(pass.targets),
                              target |-> targetNode, hints |-> GetHints(targetNode)]
    /\ UNCHANGED <<gossipVars, logVars, auxVars, now, nodes, vnodes, nodeVNodes, entries, repairs, lastOp, call,
                   lastPut, hints, stored, delivered, retired>>

\* deliverPendingHandoffs, one iteration of the inner loop: the hint is
\* sent; on success every hint with its key is removed, on failure an
\* attempt is counted and the key is given up when the copy in hand shows
\* more than AttemptCap attempts.
Deliver(outcome) ==
    /\ pass.pc = "hints"
    /\ IF pass.hints = <<>>
       THEN /\ pass' = [pass EXCEPT !.pc = "targets", !.target = ""]
            /\ UNCHANGED <<entries, hints, delivered, retired>>
       ELSE LET hint == Head(pass.hints)
                targetNode == pass.target
                success == sendReplication(Self, targetNode, outcome)
            IN  /\ pass' = [pass EXCEPT !.hints = Tail(pass.hints)]
                /\ IF success
                   THEN /\ entries' = [entries EXCEPT ![targetNode] =
                                          handleReplication(entries[targetNode], hint.Entry)]
                        /\ hints' = RemoveHint(hints, targetNode, hint.Entry.Key)
                        /\ delivered' = delivered \cup {hint.id}
                        /\ UNCHANGED retired
                   ELSE /\ hints' =
                             IF hint.Attempts > AttemptCap
                             THEN RemoveHint(IncrementAttempts(hints, targetNode,
                                                               hint.Entry.Key),
                                             targetNode, hint.Entry.Key)
                             ELSE IncrementAttempts(hints, targetNode, hint.Entry.Key)
                        /\ retired' = IF hint.Attempts > AttemptCap
                                      THEN retired \cup {hint.id}
                                      ELSE retired
                        /\ UNCHANGED <<entries, delivered>>
    /\ UNCHANGED <<gossipVars, logVars, auxVars, now, nodes, vnodes, nodeVNodes, repairs, lastOp, call, lastPut,
                   stored>>

\* ------------------------------------------------------------------------
\* Specification of the hinted handoff of node Self
\* ------------------------------------------------------------------------

\* As Init, with stores that can hold the keys of the hinted writes.
InitHandoff ==
    /\ now = 0
    /\ nodes = [c \in Nodes |-> [n \in Nodes |-> "alive"]]
    /\ vnodes = [c \in Nodes |-> RingOf(<<"n1", "n2", "n3">>).vnodes]
    /\ nodeVNodes = [c \in Nodes |-> RingOf(<<"n1", "n2", "n3">>).nodeVNodes]
    /\ entries = [n \in Nodes |-> [k \in HintKeys |-> NoEntry]]
    /\ repairs = {}
    /\ lastOp = NoOp
    /\ call = NoCall
    /\ lastPut = [k \in Keys |-> NoPut]
    /\ hints = [n \in Nodes |-> <<>>]
    /\ stored = 0
    /\ pass = IdlePass
    /\ delivered = {}
    /\ retired = {}
    /\ GossipIdle
    /\ LogIdle
    /\ AuxIdle

NextHandoff ==
    \/ \E t \in HintTargets, k \in HintKeys, v \in HintValues :
          Store(t, KeyValueEntry(k, v, now, FALSE))
    \/ cleanup
    \/ PassStart
    \/ NextTarget
    \/ \E o \in Outcomes : Deliver(o)
    \/ \E t \in HintTargets, st \in NodeStates : RegisterNode(Self, t, st)
    \/ Tick(MaxHintTime)

SpecHandoff == InitHandoff /\ [][NextHandoff]_vars

\* ------------------------------------------------------------------------
\* Membership and failure detection: gossip package
\* ------------------------------------------------------------------------

\* NodeState.String
String(state) ==
    CASE state = "alive" -> "alive"
      [] state = "suspect" -> "suspect"
      [] state = "dead" -> "dead"
      [] OTHER -> "unknown"

\* The state Merge gives a new member from the string of the datagram.
ParseState(str) ==
    IF str = "suspect" THEN "suspect"
    ELSE IF str = "dead" THEN "dead"
    ELSE "alive"

\* NewMembershipList: self is the first member.
NewMembershipList(selfID) ==
    [p \in Nodes |-> IF p = selfID
                     THEN [known |-> TRUE, State |-> "alive", LastHeartbeat |-> now]
                     ELSE NoMember]

\* MembershipList.AddMember of a node that is not yet a member.
AddMember(ml, nodeID, state) ==
    [ml EXCEPT ![nodeID] = [known |-> TRUE, State |-> state, LastHeartbeat |-> now]]

\* MembershipList.UpdateState
UpdateState(ml, nodeID, state) ==
    IF ml[nodeID].known
    THEN [ml EXCEPT ![nodeID].State = state,
                    ![nodeID].LastHeartbeat = IF state = "alive" THEN now ELSE @]
    ELSE ml

\* MembershipList.RecordHeartbeat
MembershipRecordHeartbeat(ml, nodeID) ==
    IF ml[nodeID].known
    THEN [ml EXCEPT ![nodeID].LastHeartbeat = now, ![nodeID].State = "alive"]
    ELSE ml

\* MembershipList.ToGossipFormat
ToGossipFormat(ml) ==
    [p \in Nodes |-> [known |-> ml[p].known,
                      State |-> String(ml[p].State),
                      LastSeen |-> ml[p].LastHeartbeat]]

\* A merge that adopts what the datagram says of every node but selfID,
\* known or not.
MergeAdopting(ml, selfID, other) ==
    [p \in Nodes |->
        IF p = selfID \/ ~other[p].known THEN ml[p]
        ELSE [known |-> TRUE, State |-> ParseState(other[p].State),
              LastHeartbeat |-> other[p].LastSeen]]

\* MembershipList.Merge of the members of a datagram into the list of
\* selfID.
Merge(ml, selfID, other) ==
    [p \in Nodes |->
        IF p = selfID \/ ~other[p].known THEN ml[p]
        ELSE IF ~ml[p].known
             THEN [known |-> TRUE, State |-> ParseState(other[p].State),
                   LastHeartbeat |-> other[p].LastSeen]
             ELSE IF other[p].LastSeen > ml[p].LastHeartbeat
                  THEN [ml[p] EXCEPT !.LastHeartbeat = other[p].LastSeen]
                  ELSE ml[p]]

\* What the gossip layer of node n works on: its membership list, the ring
\* it shares with the coordinator, and the onStateChange calls made so far
\* in the step.
GossipState(n) ==
    [ml |-> members[n],
     ring |-> [vnodes |-> vnodes[n], nodeVNodes |-> nodeVNodes[n]],
     fired |-> <<>>]

\* onStateChange of main: a dead node leaves the ring, a node that comes
\* back from dead joins it.
onStateChange(d, nodeID, oldState, newState) ==
    [d EXCEPT !.ring = IF newState = "dead" THEN RemoveNode(@, nodeID)
                       ELSE IF newState = "alive" /\ oldState = "dead"
                            THEN AddNode(@, nodeID)
                            ELSE @,
              !.fired = Append(@, <<nodeID, oldState, newState>>)]

\* FailureDetector.Revive
Revive(d, nodeID) ==
    IF ~d.ml[nodeID].known THEN d
    ELSE LET oldState == d.ml[nodeID].State
         IN  IF oldState = "dead" \/ oldState = "suspect"
             THEN onStateChange(
                    [d EXCEPT !.ml = MembershipRecordHeartbeat(
                                        UpdateState(@, nodeID, "alive"), nodeID)],
                    nodeID, oldState, "alive")
             ELSE d

\* FailureDetector.RecordHeartbeat
RecordHeartbeat(d, nodeID) ==
    IF ~d.ml[nodeID].known THEN d
    ELSE LET oldState == d.ml[nodeID].State
             recorded == [d EXCEPT !.ml = MembershipRecordHeartbeat(@, nodeID)]
         IN  IF oldState # "alive" THEN Revive(recorded, nodeID) ELSE recorded

\* The gossip state of node n becomes d.
SetGossipState(n, d) ==
    /\ members' = [members EXCEPT ![n] = d.ml]
    /\ vnodes' = [vnodes EXCEPT ![n] = d.ring.vnodes]
    /\ nodeVNodes' = [nodeVNodes EXCEPT ![n] = d.ring.nodeVNodes]
    /\ fired' = [fired EXCEPT ![n] = d.fired]

\* Protocol.gossipToRandomPeer of node n with targetID the peer picked: the
\* datagram carries the membership list of n.
gossipToRandomPeer(n, targetID) ==
    /\ targetID \in peers[n]
    /\ Cardinality(msgs) < MaxInFlight
    /\ msgs' = msgs \cup {[to |-> targetID, FromNode |-> n,
                           Members |-> ToGossipFormat(members[n])]}
    /\ msgs' # msgs
    /\ UNCHANGED <<now, nodes, vnodes, nodeVNodes, kvVars, handoffVars, logVars, auxVars, members,
                   peers, detector, fired>>

\* Protocol.handleMessage, what it does to the node the datagram m was sent
\* to: the heartbeat of the sender, then the merge of the members.
handled(m) ==
    \E d \in {RecordHeartbeat(GossipState(m.to), m.FromNode)} :
        SetGossipState(m.to, [d EXCEPT !.ml = Merge(@, m.to, m.Members)])

\* Protocol.handleMessage at the node the datagram m was sent to.
handleMessage(m) ==
    /\ m \in msgs
    /\ msgs' = msgs \ {m}
    /\ handled(m)
    /\ UNCHANGED <<now, nodes, kvVars, handoffVars, logVars, auxVars, peers, detector>>

\* A datagram is lost by the network.
Lose(m) ==
    /\ m \in msgs
    /\ msgs' = msgs \ {m}
    /\ UNCHANGED <<now, nodes, vnodes, nodeVNodes, kvVars, handoffVars, logVars, auxVars, members,
                   peers, detector, fired>>

\* checkMembers with the entry of the node itself visited like the others.
checkMembersSelfToo(n) ==
    /\ detector[n] = <<>>
    /\ \E o \in Orders({p \in Nodes : members[n][p].known}) :
          /\ o # <<>>
          /\ detector' = [detector EXCEPT ![n] =
                [i \in DOMAIN o |-> [ID |-> o[i],
                                     LastHeartbeat |-> members[n][o[i]].LastHeartbeat,
                                     now |-> now,
                                     State |-> members[n][o[i]].State]]]
    /\ UNCHANGED <<now, nodes, vnodes, nodeVNodes, kvVars, handoffVars, logVars, auxVars, members,
                   peers, msgs, fired>>

\* FailureDetector.checkMembers of node n, up to the loop: the copy
\* GetAllMembers makes of the heartbeat times, in the order of the loop,
\* and the time read before the loop; the entry of n itself is skipped by
\* the loop. State is not part of the copy (the Node is shared): it keeps
\* the state the member had when the pass began, for the properties.
checkMembers(n) ==
    /\ detector[n] = <<>>
    /\ \E o \in Orders({p \in Nodes \ {n} : members[n][p].known}) :
          /\ o # <<>>
          /\ detector' = [detector EXCEPT ![n] =
                [i \in DOMAIN o |-> [ID |-> o[i],
                                     LastHeartbeat |-> members[n][o[i]].LastHeartbeat,
                                     now |-> now,
                                     State |-> members[n][o[i]].State]]]
    /\ UNCHANGED <<now, nodes, vnodes, nodeVNodes, kvVars, handoffVars, logVars, auxVars, members,
                   peers, msgs, fired>>

\* What one iteration of the loop of checkMembers does for the copied
\* member: the state is read through the shared Node, the silence is
\* computed from the copied heartbeat time and the time read before the
\* loop.
checkMember(d, member) ==
    LET elapsed == member.now - member.LastHeartbeat
        oldState == d.ml[member.ID].State
        after == IF oldState = "alive" /\ elapsed > suspectTimeout
                 THEN [d EXCEPT !.ml = UpdateState(@, member.ID, "suspect")]
                 ELSE IF oldState = "suspect" /\ elapsed > deadTimeout
                      THEN [d EXCEPT !.ml = UpdateState(@, member.ID, "dead")]
                      ELSE d
    IN  IF oldState # after.ml[member.ID].State
        THEN onStateChange(after, member.ID, oldState, after.ml[member.ID].State)
        ELSE after

\* One iteration of the loop of checkMembers of node n.
checkNext(n) ==
    /\ detector[n] # <<>>
    /\ detector' = [detector EXCEPT ![n] = Tail(@)]
    /\ SetGossipState(n, checkMember(GossipState(n), Head(detector[n])))
    /\ UNCHANGED <<now, nodes, kvVars, handoffVars, logVars, auxVars, peers, msgs>>

\* ------------------------------------------------------------------------
\* Specification of the gossip layer of a cluster of three nodes
\* ------------------------------------------------------------------------

\* The seed addresses node n is started with: each node lists the nodes
\* started before it.
SeedNodes(n) ==
    CASE n = "n1" -> {}
      [] n = "n2" -> {"n1"}
      [] n = "n3" -> {"n1", "n2"}

\* Three nodes as main leaves them: each is the only member of its list,
\* the only node of its coordinator and of its ring, and gossips with its
\* seeds. In the second case the peers of Self have been made known to it
\* before the services start (RegisterNode, AddMember).
InitGossip ==
    /\ now = 0
    /\ \E R \in {{}, Nodes \ {Self}} :
          /\ nodes = [c \in Nodes |-> [n \in Nodes |->
                        IF n = c \/ (c = Self /\ n \in R) THEN "alive" ELSE "none"]]
          /\ members = [c \in Nodes |-> [n \in Nodes |->
                        IF c = Self /\ n \in R
                        THEN AddMember(NewMembershipList(c), n, "alive")[n]
                        ELSE NewMembershipList(c)[n]]]
    /\ vnodes = [c \in Nodes |-> RingOf(Registered(nodes, c)).vnodes]
    /\ nodeVNodes = [c \in Nodes |-> RingOf(Registered(nodes, c)).nodeVNodes]
    /\ entries = [n \in Nodes |-> [k \in Keys |-> NoEntry]]
    /\ repairs = {}
    /\ lastOp = NoOp
    /\ call = NoCall
    /\ lastPut = [k \in Keys |-> NoPut]
    /\ hints = [n \in Nodes |-> <<>>]
    /\ stored = 0
    /\ pass = IdlePass
    /\ delivered = {}
    /\ retired = {}
    /\ peers = [n \in Nodes |-> SeedNodes(n)]
    /\ msgs = {}
    /\ detector = [n \in Nodes |-> <<>>]
    /\ fired = [n \in Nodes |-> <<>>]
    /\ LogIdle
    /\ AuxIdle

NextGossip ==
    \/ \E n \in Nodes, targetID \in Nodes : gossipToRandomPeer(n, targetID)
    \/ \E m \in msgs : handleMessage(m)
    \/ \E m \in msgs : Lose(m)
    \/ \E n \in Nodes : checkMembers(n)
    \/ \E n \in Nodes : checkNext(n)
    \/ Tick(MaxClock)

SpecGossip == InitGossip /\ [][NextGossip]_vars

\* ------------------------------------------------------------------------
\* Specification of the membership list of one node under any datagrams
\* ------------------------------------------------------------------------

\* What a datagram can say of a node: nothing, or a state with the time the
\* sender heard of it last.
NoInfo == [known |-> FALSE, State |-> "", LastSeen |-> 0]

PeerInfos ==
    {NoInfo,
     [known |-> TRUE, State |-> "alive", LastSeen |-> MaxClock],
     [known |-> TRUE, State |-> "dead", LastSeen |-> 0]}

\* What it can say of its receiver: nothing, or that it has just died.
SelfInfos == {NoInfo, [known |-> TRUE, State |-> "dead", LastSeen |-> MaxClock]}

\* The datagrams the socket of node Self can receive: from any sender, its
\* own id included, with any word of Self and of a peer.
Datagrams ==
    {[to |-> Self, FromNode |-> f,
      Members |-> [p \in Nodes |-> IF p = Self THEN own
                                   ELSE IF p = "n2" THEN peer ELSE NoInfo]] :
        f \in Nodes, own \in SelfInfos, peer \in PeerInfos}

\* Protocol.receiveLoop of node Self reads the datagram m and handles it.
receiveLoop(m) ==
    /\ handled(m)
    /\ heard' = [FromNode |-> m.FromNode, self |-> m.Members[Self]]
    /\ UNCHANGED <<now, nodes, kvVars, handoffVars, logVars, readVars, ringVars, clockVars,
                   dispatchVars, issuedVars, peers, msgs, detector>>

NextSelf ==
    \/ \E m \in Datagrams : receiveLoop(m)
    \/ checkMembers(Self)
    \/ checkNext(Self)
    \/ Tick(MaxClock)

SpecSelf == InitGossip /\ [][NextSelf]_vars

\* ------------------------------------------------------------------------
\* The merge of a received membership map (SpecMerge)
\* ------------------------------------------------------------------------

\* What the list of node Self can hold of a peer: nothing, or any state
\* with any heartbeat time.
MemberRecords ==
    {NoMember} \cup
    {[known |-> TRUE, State |-> s, LastHeartbeat |-> t] :
        s \in NodeStates, t \in 0..MaxClock}

\* What the map of a datagram can say of a node: nothing, or any state, as
\* ToGossipFormat writes it, with any last_seen.
NodeInfos ==
    {NoInfo} \cup
    {[known |-> TRUE, State |-> String(s), LastSeen |-> t] :
        s \in NodeStates, t \in 0..MaxClock}

\* The maps Merge is called with: any word of n2, and of Self and n3
\* either nothing or a death more recent than anything the list holds.
GossipMaps ==
    {[p \in Nodes |-> IF p = "n2" THEN peer ELSE IF p = Self THEN own ELSE third] :
        peer \in NodeInfos, own \in SelfInfos, third \in SelfInfos}

\* Node Self holds any record of n2, knows n3 or not, and has one datagram
\* to merge.
InitMerge ==
    /\ now = MaxClock
    /\ nodes = [c \in Nodes |-> [n \in Nodes |-> IF n = c THEN "alive" ELSE "none"]]
    /\ \E r2 \in MemberRecords :
       \E r3 \in {NoMember, [known |-> TRUE, State |-> "alive", LastHeartbeat |-> 0]} :
          members = [c \in Nodes |-> [n \in Nodes |->
                        IF c # Self THEN NoMember
                        ELSE IF n = Self
                             THEN [known |-> TRUE, State |-> "alive", LastHeartbeat |-> 0]
                             ELSE IF n = "n2" THEN r2 ELSE r3]]
    /\ vnodes = [c \in Nodes |-> RingOf(Registered(nodes, c)).vnodes]
    /\ nodeVNodes = [c \in Nodes |-> RingOf(Registered(nodes, c)).nodeVNodes]
    /\ entries = [n \in Nodes |-> [k \in Keys |-> NoEntry]]
    /\ repairs = {}
    /\ lastOp = NoOp
    /\ call = NoCall
    /\ lastPut = [k \in Keys |-> NoPut]
    /\ hints = [n \in Nodes |-> <<>>]
    /\ stored = 0
    /\ pass = IdlePass
    /\ delivered = {}
    /\ retired = {}
    /\ peers = [n \in Nodes |-> SeedNodes(n)]
    /\ \E other \in GossipMaps :
          msgs = {[to |-> Self, FromNode |-> "n2", Members |-> other]}
    /\ detector = [n \in Nodes |-> <<>>]
    /\ fired = [n \in Nodes |-> <<>>]
    /\ LogIdle
    /\ AuxIdle

\* membership.Merge(msg.Members) of handleMessage, on its own.
MergeCall(m) ==
    /\ members' = [members EXCEPT ![m.to] = Merge(@, m.to, m.Members)]
    /\ msgs' = msgs \ {m}
    /\ heard' = [FromNode |-> m.FromNode, self |-> m.Members[Self]]
    /\ UNCHANGED <<now, nodes, vnodes, nodeVNodes, kvVars, handoffVars, logVars,
                   readVars, ringVars, clockVars, dispatchVars, issuedVars,
                   peers, detector, fired>>

NextMerge == \E m \in msgs : MergeCall(m)

SpecMerge == InitMerge /\ [][NextMerge]_vars

\* ------------------------------------------------------------------------
\* Specification of the replay loop beside the failure detector
\* ------------------------------------------------------------------------

\* Node Self with its peers registered at the coordinator and the targets of
\* the hints known to the membership list as alive, stores that can hold the keys of the hinted
\* writes, and an empty hint buffer.
InitReplay ==
    /\ now = 0
    /\ nodes = [c \in Nodes |-> [n \in Nodes |->
                  IF n = c \/ c = Self THEN "alive" ELSE "none"]]
    /\ members = [c \in Nodes |-> [n \in Nodes |->
                  IF c = Self /\ n \in HintTargets
                  THEN AddMember(NewMembershipList(c), n, "alive")[n]
                  ELSE NewMembershipList(c)[n]]]
    /\ vnodes = [c \in Nodes |-> RingOf(Registered(nodes, c)).vnodes]
    /\ nodeVNodes = [c \in Nodes |-> RingOf(Registered(nodes, c)).nodeVNodes]
    /\ entries = [n \in Nodes |-> [k \in HintKeys |-> NoEntry]]
    /\ repairs = {}
    /\ lastOp = NoOp
    /\ call = NoCall
    /\ lastPut = [k \in Keys |-> NoPut]
    /\ hints = [n \in Nodes |-> <<>>]
    /\ stored = 0
    /\ pass = IdlePass
    /\ delivered = {}
    /\ retired = {}
    /\ peers = [n \in Nodes |-> SeedNodes(n)]
    /\ msgs = {}
    /\ detector = [n \in Nodes |-> <<>>]
    /\ fired = [n \in Nodes |-> <<>>]
    /\ LogIdle
    /\ AuxIdle

\* The hint store, the replay loop and the failure detector of node Self,
\* while time passes.
NextReplay ==
    \/ \E t \in HintTargets, k \in HintKeys, v \in HintValues :
          stored < MaxReplayStores /\ Store(t, KeyValueEntry(k, v, now, FALSE))
    \/ cleanup
    \/ PassStart
    \/ NextTarget
    \/ \E o \in Outcomes : Deliver(o)
    \/ checkMembers(Self)
    \/ checkNext(Self)
    \/ Tick(MaxClock)

SpecReplay == InitReplay /\ [][NextReplay]_vars

\* ------------------------------------------------------------------------
\* Specification of client calls on the cluster main starts
\* ------------------------------------------------------------------------

\* Every storage call and RPC is carried out.
AllOk == [n \in Nodes |-> "ok"]

\* The three nodes exactly as main leaves them.
InitCluster ==
    /\ InitGossip
    /\ \A c, n \in Nodes : nodes[c][n] # "none" <=> n = c

\* The nodes gossip while clients put and get through any node; call keeps
\* the latest put that returned success.
NextCluster ==
    \/ \E n \in Nodes, targetID \in Nodes : gossipToRandomPeer(n, targetID)
    \/ \E m \in msgs : handleMessage(m)
    \/ \E c \in Nodes, k \in Keys, v \in Values, l \in ConsistencyLevels :
          /\ Put(c, k, v, l, AllOk)
          /\ call' = IF lastOp'.ret = "ok" THEN CallOf("put", c, k, v, l, AllOk)
                     ELSE call
    \/ \E c \in Nodes, k \in Keys, l \in ConsistencyLevels :
          Get(c, k, l, AllOk) /\ UNCHANGED call
    \/ \E r \in repairs : readRepair(r, "ok")

SpecCluster == InitCluster /\ [][NextCluster]_vars

\* ------------------------------------------------------------------------
\* Specification of discovery through gossip
\* ------------------------------------------------------------------------

\* The gossip loops and the receive loops of the three nodes, with no
\* datagram lost, while time passes.
NextDiscovery ==
    \/ \E n \in Nodes, targetID \in Nodes : gossipToRandomPeer(n, targetID)
    \/ \E m \in msgs : handleMessage(m)
    \/ Tick(MaxClock)

\* The gossip ticker of every node keeps firing and its random choice
\* picks every peer again and again; every datagram is delivered.
SpecDiscovery ==
    /\ InitCluster
    /\ [][NextDiscovery]_vars
    /\ \A n \in Nodes, targetID \in Nodes : SF_vars(gossipToRandomPeer(n, targetID))
    /\ WF_vars(\E m \in msgs : handleMessage(m))

\* ------------------------------------------------------------------------
\* Specification of one log store
\* ------------------------------------------------------------------------

\* NewBitcask on an empty data directory; the rest of the node is left out.
InitStore ==
    /\ now = 0
    /\ nodes = [c \in Nodes |-> [n \in Nodes |-> "none"]]
    /\ vnodes = [c \in Nodes |-> <<>>]
    /\ nodeVNodes = [c \in Nodes |-> {}]
    /\ entries = [n \in Nodes |-> [k \in Keys |-> NoEntry]]
    /\ repairs = {}
    /\ lastOp = NoOp
    /\ call = NoCall
    /\ lastPut = [k \in Keys |-> NoPut]
    /\ hints = [n \in Nodes |-> <<>>]
    /\ stored = 0
    /\ pass = IdlePass
    /\ delivered = {}
    /\ retired = {}
    /\ GossipIdle
    /\ AuxIdle
    /\ dataFile = <<>>
    /\ index = NewIndex
    /\ status = "open"
    /\ seen = NoObservation
    /\ history = NoHistory

NextStore ==
    \/ \E k \in LogKeys, v \in LogValues, ts \in 1..MaxStamp : StorePut(k, v, ts)
    \/ \E k \in LogKeys, ts \in 1..MaxStamp : StoreDelete(k, ts)
    \/ \E order \in Orders(LiveKeys(index)) : Compact(order)
    \/ Close
    \/ NewBitcask

SpecStore == InitStore /\ [][NextStore]_vars

\* ------------------------------------------------------------------------
\* A compaction whose I/O fails (SpecCompaction)
\* ------------------------------------------------------------------------

\* The I/O steps of Compact that return an error, in the order of the code:
\* the flush of the writer, the creation of the temporary file, the read of
\* an old record, the write of a record, the flush and sync of the
\* temporary file, the rename, the reopening of the data file.
CompactSteps == {"flush", "create", "read", "write", "sync", "rename", "reopen"}

\* Bitcask.Compact returning an error at the given step. Up to the sync
\* only the temporary file has been written. Before the rename the code
\* closes bc.dataFile: a failing rename leaves the engine with a closed
\* handle on the old file, a failing reopening leaves it with a nil handle,
\* the compacted file under the name of the data file, and the old index.
\* Either way bc.closed stays false; status is "detached" then.
CompactFails(step, order) ==
    /\ status = "open"
    /\ order \in Orders(LiveKeys(index))
    /\ step \in {"read", "write"} => order # <<>>
    /\ dataFile' = IF step = "reopen" THEN compactInto(order, <<>>, NewIndex).file
                   ELSE dataFile
    /\ status' = IF step \in {"rename", "reopen"} THEN "detached" ELSE status
    /\ UNCHANGED <<now, nodes, vnodes, nodeVNodes, kvVars, handoffVars, gossipVars,
                   auxVars,
                   index, seen, history>>

\* Bitcask.Get of an engine in the given status: with a closed or nil
\* handle the Seek fails for every key the index holds live.
EngineGet(st, idx, file, key) ==
    IF st = "detached" /\ IndexHas(idx, key)
    THEN [err |-> "seek_failed", Value |-> "", Timestamp |-> 0]
    ELSE StoreGet(idx, file, key)

NextCompaction ==
    \/ \E k \in LogKeys, ts \in 1..MaxStamp : StorePut(k, "a", ts)
    \/ \E k \in LogKeys, ts \in 1..MaxStamp : StoreDelete(k, ts)
    \/ \E order \in Orders(LiveKeys(index)) : Compact(order)
    \/ \E step \in CompactSteps, order \in Orders(LiveKeys(index)) :
          CompactFails(step, order)

SpecCompaction == InitStore /\ [][NextCompaction]_vars

\* ------------------------------------------------------------------------
\* Specification of the recovery of a damaged data file
\* ------------------------------------------------------------------------

\* The records a store can have written.
LogRecords ==
    {LogRecord(k, v, ts, FALSE) : k \in LogKeys, v \in LogValues, ts \in 1..MaxStamp}
    \cup {LogRecord(k, "", ts, TRUE) : k \in LogKeys, ts \in 1..MaxStamp}

\* The files of at most n records.
Files(n) == UNION {[1..l -> LogRecords] : l \in 0..n}

\* The file with the record at offset i damaged.
Damaged(file, i, state) == [file EXCEPT ![i].state = state]

\* The offset of the first record that is not whole and valid, 0 if none.
FirstBad(file) ==
    IF \E i \in 1..Len(file) : file[i].state # "ok"
    THEN CHOOSE i \in 1..Len(file) :
            /\ file[i].state # "ok"
            /\ \A j \in 1..(i - 1) : file[j].state = "ok"
    ELSE 0

\* A closed data directory whose file is whole, or has one record with a
\* CRC that does not match, or ends in a record cut short by a crash.
InitRecovery ==
    /\ now = 0
    /\ nodes = [c \in Nodes |-> [n \in Nodes |-> "none"]]
    /\ vnodes = [c \in Nodes |-> <<>>]
    /\ nodeVNodes = [c \in Nodes |-> {}]
    /\ entries = [n \in Nodes |-> [k \in Keys |-> NoEntry]]
    /\ repairs = {}
    /\ lastOp = NoOp
    /\ call = NoCall
    /\ lastPut = [k \in Keys |-> NoPut]
    /\ hints = [n \in Nodes |-> <<>>]
    /\ stored = 0
    /\ pass = IdlePass
    /\ delivered = {}
    /\ retired = {}
    /\ GossipIdle
    /\ AuxIdle
    /\ \E file \in Files(MaxLog) :
          \/ dataFile = file
          \/ \E i \in 1..Len(file) : dataFile = Damaged(file, i, "corrupt")
          \/ Len(file) > 0 /\ dataFile = Damaged(file, Len(file), "partial")
    /\ index = NewIndex
    /\ status = "closed"
    /\ seen = NoObservation
    /\ history = NoHistory

NextRecovery ==
    \/ NewBitcask
    \/ \E k \in LogKeys, v \in LogValues, ts \in 1..MaxStamp : StorePut(k, v, ts)
    \/ \E k \in LogKeys, ts \in 1..MaxStamp : StoreDelete(k, ts)
    \/ Close

SpecRecovery == InitRecovery /\ [][NextRecovery]_vars

\* ------------------------------------------------------------------------
\* Specification of one placement ring
\* ------------------------------------------------------------------------

\* The keys looked up on the ring, and the numbers of nodes asked for.
RingKeys == {"k1", "k2", "k3", "k4"}
RingCounts == 0..(Cardinality(Nodes) + 1)

\* The ring of node c.
RingAt(c) == [vnodes |-> vnodes[c], nodeVNodes |-> nodeVNodes[c]]

\* NewHashRing at node Self; the rest of the node is left out.
InitRing ==
    /\ now = 0
    /\ nodes = [c \in Nodes |-> [n \in Nodes |-> "none"]]
    /\ vnodes = [c \in Nodes |-> <<>>]
    /\ nodeVNodes = [c \in Nodes |-> {}]
    /\ entries = [n \in Nodes |-> [k \in Keys |-> NoEntry]]
    /\ repairs = {}
    /\ lastOp = NoOp
    /\ call = NoCall
    /\ lastPut = [k \in Keys |-> NoPut]
    /\ hints = [n \in Nodes |-> <<>>]
    /\ stored = 0
    /\ pass = IdlePass
    /\ delivered = {}
    /\ retired = {}
    /\ GossipIdle
    /\ LogIdle
    /\ AuxIdle

\* A call of AddNode or RemoveNode on the ring of Self, with its result.
RingCall(op, nodeID, ring) ==
    /\ Len(ringCalls) < MaxRingCalls
    /\ vnodes' = [vnodes EXCEPT ![Self] = ring.vnodes]
    /\ nodeVNodes' = [nodeVNodes EXCEPT ![Self] = ring.nodeVNodes]
    /\ ringCalls' = Append(ringCalls, [op |-> op, nodeID |-> nodeID])
    /\ UNCHANGED <<now, nodes, kvVars, handoffVars, gossipVars, logVars, readVars,
                   clockVars, dispatchVars, selfVars, issuedVars>>

\* r.AddNode(nodeID) and r.RemoveNode(nodeID) on the ring of Self
CallAddNode(nodeID) == RingCall("add", nodeID, AddNode(RingAt(Self), nodeID))
CallRemoveNode(nodeID) == RingCall("remove", nodeID, RemoveNode(RingAt(Self), nodeID))

NextRing ==
    \/ \E nodeID \in Nodes : CallAddNode(nodeID)
    \/ \E nodeID \in Nodes : CallRemoveNode(nodeID)

SpecRing == InitRing /\ [][NextRing]_vars

\* ------------------------------------------------------------------------
\* Vector clocks: pkg/types and internal/versioning
\* ------------------------------------------------------------------------

\* types.VectorClock: a map from node ids to counters; a node id may be
\* missing from it.
VectorClocks == UNION {[S -> 0..MaxTick] : S \in SUBSET Nodes}

\* vc[k] of a Go map: 0 for a missing key.
Component(vc, k) == IF k \in DOMAIN vc THEN vc[k] ELSE 0

\* VectorClock.Increment
Increment(vc, nodeID) ==
    [k \in DOMAIN vc \cup {nodeID} |-> IF k = nodeID THEN Component(vc, k) + 1 ELSE vc[k]]

\* VectorClock.Merge: the components of vc, raised to those of other that
\* are greater; a component of other that is 0 and missing from vc stays
\* missing.
VectorClockMerge(vc, other) ==
    [k \in DOMAIN vc \cup {j \in DOMAIN other : other[j] > Component(vc, j)} |->
        IF k \in DOMAIN other /\ other[k] > Component(vc, k) THEN other[k] ELSE vc[k]]

\* A Compare that looks at the components of vc only.
CompareOwnKeys(vc, other) ==
    LET less == \E k \in DOMAIN vc : Component(vc, k) < Component(other, k)
        greater == \E k \in DOMAIN vc : Component(vc, k) > Component(other, k)
    IN  IF less /\ ~greater THEN -1
        ELSE IF greater /\ ~less THEN 1
        ELSE 0

\* VectorClock.Compare
Compare(vc, other) ==
    LET allKeys == DOMAIN vc \cup DOMAIN other
        less == \E k \in allKeys : Component(vc, k) < Component(other, k)
        greater == \E k \in allKeys : Component(vc, k) > Component(other, k)
    IN  IF less /\ ~greater THEN -1
        ELSE IF greater /\ ~less THEN 1
        ELSE 0

\* The frame of the steps of the clock managers.
restOfClocks == <<now, nodes, vnodes, nodeVNodes, kvVars, handoffVars, gossipVars, logVars,
                  readVars, ringVars, dispatchVars, selfVars, issuedVars>>

\* VectorClockManager.Increment at node n
ManagerIncrement(n) ==
    /\ Component(clocks[n], n) < MaxTick
    /\ clocks' = [clocks EXCEPT ![n] = Increment(@, n)]
    /\ compared' = NoCompare
    /\ UNCHANGED restOfClocks

\* VectorClockManager.Update at node n with the clock of node m
ManagerUpdate(n, m) ==
    /\ clocks' = [clocks EXCEPT ![n] = VectorClockMerge(@, clocks[m])]
    /\ clocks' # clocks
    /\ compared' = NoCompare
    /\ UNCHANGED restOfClocks

\* VectorClockManager.Set at node n with a clock received with an entry
ManagerSet(n, vc) ==
    /\ clocks' = [clocks EXCEPT ![n] = vc]
    /\ clocks' # clocks
    /\ compared' = NoCompare
    /\ UNCHANGED restOfClocks

\* versioning.Compare on the clocks of the two managers, both ways
CompareClocks ==
    /\ ~compared.done
    /\ compared' = [done |-> TRUE, result |-> Compare(clocks["n1"], clocks["n2"]),
                    reverse |-> Compare(clocks["n2"], clocks["n1"])]
    /\ UNCHANGED <<restOfClocks, clocks>>

NextClocks ==
    \/ \E n \in Managers : ManagerIncrement(n)
    \/ \E n, m \in Managers : ManagerUpdate(n, m)
    \/ \E n \in Managers, vc \in VectorClocks : ManagerSet(n, vc)
    \/ CompareClocks

\* NewVectorClockManager at the two nodes: InitRing leaves the clocks empty.
SpecClocks == InitRing /\ [][NextClocks]_vars

\* ------------------------------------------------------------------------
\* Specification of concurrent readers and one writer of a log store
\* ------------------------------------------------------------------------

\* The frame of the steps of the store under concurrent readers.
restOfNode == <<now, nodes, vnodes, nodeVNodes, kvVars, handoffVars, gossipVars, ringVars,
                clockVars, dispatchVars, selfVars, issuedVars>>

\* bc.mu.Lock(): the writer runs when no Get holds the read lock.
Locked == \A r \in Readers : readers[r].pc = "idle"

\* Bitcask.Put of the writer, syncWrite being false (the default of the
\* configuration): writeEntry leaves the record in the writer's buffer.
BufferedPut(key, value, timestamp) ==
    /\ status = "open" /\ Locked
    /\ position < MaxLog
    /\ buffer' = Append(buffer, LogRecord(key, value, timestamp, FALSE))
    /\ position' = position + 1
    /\ index' = IndexPutOffset(index, key, position + 1, timestamp)
    /\ history' = Noted("put", key, value, timestamp)
    /\ UNCHANGED <<restOfNode, dataFile, status, seen, cursor, readers>>

\* Bitcask.Delete of the writer
BufferedDelete(key, timestamp) ==
    /\ status = "open" /\ Locked
    /\ position < MaxLog
    /\ buffer' = Append(buffer, LogRecord(key, "", timestamp, TRUE))
    /\ position' = position + 1
    /\ index' = IndexDeleteEntry(index, key, timestamp)
    /\ history' = Noted("delete", key, "", timestamp)
    /\ UNCHANGED <<restOfNode, dataFile, status, seen, cursor, readers>>

\* What a Get call returned.
Returned(key, offset, err, value, timestamp) ==
    [pc |-> "idle", Key |-> key, Offset |-> offset, err |-> err, Value |-> value,
     Timestamp |-> timestamp]

\* Bitcask.Get up to the index lookup: the read lock is taken, and the call
\* returns at once for a missing or tombstoned key.
GetLookup(r, key) ==
    /\ status = "open"
    /\ readers[r].pc = "idle"
    /\ LET entry == index.entries[key]
       IN  readers' = [readers EXCEPT ![r] =
              IF ~entry.exists THEN Returned(key, 0, "not_found", "", 0)
              ELSE IF entry.IsDeleted THEN Returned(key, 0, "deleted", "", 0)
              ELSE [pc |-> "flush", Key |-> key, Offset |-> entry.Offset,
                    err |-> "none", Value |-> "", Timestamp |-> 0]]
    /\ UNCHANGED <<restOfNode, logVars, buffer, position, cursor>>

\* bc.writer.Flush() of Get, first half: a non-empty buffer is written to
\* the file.  The readers hold the lock together, so two of them can each
\* find the buffer non-empty and write it.
GetFlush(r) ==
    /\ readers[r].pc = "flush"
    /\ IF buffer = <<>>
       THEN /\ readers' = [readers EXCEPT ![r].pc = "seek"]
            /\ UNCHANGED dataFile
       ELSE /\ dataFile' = dataFile \o buffer
            /\ readers' = [readers EXCEPT ![r].pc = "flushed"]
    /\ UNCHANGED <<restOfNode, index, status, seen, history, buffer, position, cursor>>

\* bc.writer.Flush() of Get, second half: the buffer is marked empty.
GetFlushed(r) ==
    /\ readers[r].pc = "flushed"
    /\ buffer' = <<>>
    /\ readers' = [readers EXCEPT ![r].pc = "seek"]
    /\ UNCHANGED <<restOfNode, logVars, position, cursor>>

\* bc.dataFile.Seek(entry.Offset, io.SeekStart)
GetSeek(r) ==
    /\ readers[r].pc = "seek"
    /\ cursor' = readers[r].Offset
    /\ readers' = [readers EXCEPT ![r].pc = "read"]
    /\ UNCHANGED <<restOfNode, logVars, buffer, position>>

\* readEntry on a bufio.Reader over bc.dataFile: the read starts at the
\* file offset and takes the file to its end (a file below the buffer size
\* of the reader); Get returns the Value and Timestamp of what was read.
GetRead(r) ==
    /\ readers[r].pc = "read"
    /\ LET e == readEntry(dataFile, cursor)
       IN  readers' = [readers EXCEPT ![r] =
              IF e.err # ""
              THEN Returned(@.Key, @.Offset, "read_failed", "", 0)
              ELSE Returned(@.Key, @.Offset, "", e.entry.Value, e.entry.Timestamp)]
    /\ cursor' = IF cursor > Len(dataFile) THEN cursor ELSE Len(dataFile) + 1
    /\ UNCHANGED <<restOfNode, logVars, buffer, position>>

\* The writer stamps its writes with a rising clock.
NextReaders ==
    \/ \E k \in LogKeys, v \in LogValues : BufferedPut(k, v, history.stamp + 1)
    \/ \E k \in LogKeys : BufferedDelete(k, history.stamp + 1)
    \/ \E r \in Readers, k \in LogKeys : GetLookup(r, k)
    \/ \E r \in Readers : GetFlush(r)
    \/ \E r \in Readers : GetFlushed(r)
    \/ \E r \in Readers : GetSeek(r)
    \/ \E r \in Readers : GetRead(r)

SpecReaders == InitStore /\ [][NextReaders]_vars

\* ------------------------------------------------------------------------
\* Specification of one client call with its goroutines and its deadline
\* ------------------------------------------------------------------------

\* Expired for a client without Timeout and a ctx without deadline.
NeverExpired(e) == FALSE

\* Whether a request to a remote node started with the call has run into
\* http.Client.Timeout (or the deadline of ctx) after the time e.
Expired(e) == e >= RequestTimeout

\* The frame of the steps of a client call in progress.
restOfCall == <<now, nodes, vnodes, nodeVNodes, call, handoffVars, gossipVars, logVars,
                readVars, ringVars, clockVars, selfVars, issuedVars>>

\* The nodes the call in progress started a goroutine for.
Dispatched == Range(inflight.pref)

\* The nodes whose goroutine has not returned.
Pending == {n \in Dispatched : workers[n].pc = "pending"}

\* The nodes whose goroutine returned a success: results[nodeID] = true of a
\* write, a non-nil entry of responses of a read.
Acked == {n \in Dispatched : workers[n].pc = "ok"}

\* Every store holds nothing or one record of the key; the nodes registered
\* as in InitCall; no call in progress.
InitDispatch ==
    /\ now \in 0..MaxTime
    /\ \E R \in SUBSET (Nodes \ {Self}) :
          nodes = [c \in Nodes |-> [n \in Nodes |->
                      IF n = c \/ n \in R THEN "alive" ELSE "none"]]
    /\ vnodes = [c \in Nodes |-> RingOf(Registered(nodes, c)).vnodes]
    /\ nodeVNodes = [c \in Nodes |-> RingOf(Registered(nodes, c)).nodeVNodes]
    /\ entries \in [Nodes -> [Keys -> {NoEntry,
                                        [exists |-> TRUE, Value |-> "a", Timestamp |-> 0,
                                         IsDeleted |-> FALSE]}]]
    /\ repairs = {}
    /\ lastOp = NoOp
    /\ call = NoCall
    /\ lastPut = [k \in Keys |-> NoPut]
    /\ hints = [n \in Nodes |-> <<>>]
    /\ stored = 0
    /\ pass = IdlePass
    /\ delivered = {}
    /\ retired = {}
    /\ GossipIdle
    /\ LogIdle
    /\ AuxIdle

\* Coordinator.Put and Coordinator.Get at node c up to the fan-out: the
\* timestamp, the preference list, and one goroutine per node of the list;
\* on a ring without nodes the call returns the error at once.
Begin(op, c, key, value, consistency) ==
    /\ inflight.op = "none"
    /\ \E pl \in {GetNodes(vnodes[c], key, ReplicationFactor)} :
        \E d \in {[NoDispatch EXCEPT !.op = op, !.coord = c, !.key = key, !.Value = value,
                                     !.level = consistency, !.timestamp = now]} :
          IF pl.err
          THEN /\ inflight' = [d EXCEPT !.ret = "ring_empty", !.at = sinceCall]
               /\ lastOp' = [NoOp EXCEPT !.op = op, !.key = key, !.ret = "ring_empty"]
               /\ UNCHANGED workers
          ELSE /\ inflight' = [d EXCEPT !.pref = pl.nodes]
               /\ workers' = [n \in Nodes |->
                                 IF n \in Range(pl.nodes)
                                 THEN [IdleWorker EXCEPT !.pc = "pending"]
                                 ELSE IdleWorker]
               /\ UNCHANGED lastOp
    /\ UNCHANGED <<sinceCall, entries, repairs, lastPut, restOfCall>>

BeginPut(c, key, value, consistency) == Begin("put", c, key, value, consistency)

BeginGet(c, key, consistency) == Begin("get", c, key, "", consistency)

\* The goroutine of node n returns with the outcome of its storage call or
\* of its request: a write goroutine that succeeded has written the entry,
\* a read goroutine has stored what it read.
WorkerReturns(n, outcome) ==
    LET c == inflight.coord
        entry == KeyValueEntry(inflight.key, inflight.Value, inflight.timestamp, FALSE)
        results == replicateToNodes(c, <<n>>, [m \in Nodes |-> outcome])
        response == readFromNodes(c, <<n>>, inflight.key, [m \in Nodes |-> outcome])[1]
    IN  /\ n \in Pending
        /\ IF inflight.op = "put"
           THEN /\ entries' = replicateEntries(c, results, entry)
                /\ workers' = [workers EXCEPT ![n].pc = IF n \in results THEN "ok" ELSE "fail"]
           ELSE /\ workers' = [workers EXCEPT ![n] =
                                  [pc |-> IF response.found THEN "ok" ELSE "fail",
                                   resp |-> response]]
                /\ UNCHANGED entries
        /\ UNCHANGED <<sinceCall, inflight, repairs, lastOp, lastPut, restOfCall>>

\* The goroutine of the local node: storage.Put or storage.Get.
WorkerLocal(outcome) ==
    /\ inflight.coord \in Pending
    /\ WorkerReturns(inflight.coord, outcome)

\* The goroutine of a remote node whose request is answered, or refused,
\* before it has expired.
WorkerAnswer(n, outcome) ==
    /\ n # inflight.coord
    /\ ~Expired(sinceCall)
    /\ WorkerReturns(n, outcome)

\* The goroutine of a remote node whose request has expired: httpClient.Do
\* returns an error.
WorkerTimeout(n) ==
    /\ n # inflight.coord
    /\ Expired(sinceCall)
    /\ WorkerReturns(n, "fail")

\* wg.Wait has returned: no goroutine of the call is left.
Waited == inflight.op \in {"put", "get"} /\ inflight.ret = "" /\ Pending = {}

\* Coordinator.Put after replicateToNodes: the count of the successes.
PutReturns ==
    /\ Waited
    /\ inflight.op = "put"
    /\ LET requiredAcks == getWriteQuorum(inflight.level)
           successCount == Cardinality(Acked)
           ret == IF successCount < requiredAcks THEN "quorum_failed" ELSE "ok"
       IN  /\ inflight' = [inflight EXCEPT !.ret = ret, !.at = sinceCall]
           /\ lastOp' = [NoOp EXCEPT !.op = "put", !.key = inflight.key, !.ret = ret]
           /\ lastPut' = [lastPut EXCEPT ![inflight.key] =
                             IF /\ ret = "ok"
                                /\ inflight.level = "quorum"
                                /\ Len(inflight.pref) = ReplicationFactor
                             THEN [exists |-> TRUE, Value |-> inflight.Value,
                                   Timestamp |-> inflight.timestamp]
                             ELSE NoPut]
    /\ UNCHANGED <<sinceCall, workers, entries, repairs, restOfCall>>

\* Coordinator.Get after readFromNodes: the quorum check, the latest
\* response, and the read-repair goroutine it starts.
GetReturns ==
    /\ Waited
    /\ inflight.op = "get"
    /\ \E found \in {successfulResponses([i \in 1..Len(inflight.pref) |->
                                             workers[inflight.pref[i]].resp])} :
       \E base \in {[NoOp EXCEPT !.op = "get", !.key = inflight.key]} :
         IF Len(found) < getReadQuorum(inflight.level)
         THEN /\ inflight' = [inflight EXCEPT !.ret = "not_found", !.at = sinceCall]
              /\ lastOp' = [base EXCEPT !.ret = "not_found"]
              /\ UNCHANGED repairs
         ELSE \E latest \in Latest(found) :
                /\ inflight' = [inflight EXCEPT !.ret = "ok", !.at = sinceCall]
                /\ lastOp' = [base EXCEPT !.ret = "ok", !.Value = latest.Value,
                                          !.Timestamp = latest.Timestamp]
                /\ repairs' = repairs \cup
                      {[coord |-> inflight.coord, todo |-> inflight.pref,
                        latest |-> KeyValueEntry(inflight.key, latest.Value,
                                                 latest.Timestamp, FALSE)]}
    /\ UNCHANGED <<sinceCall, workers, entries, lastPut, restOfCall>>

\* Time passes while the call waits for its goroutines. A storage call, the
\* expiry of a request and the return from wg.Wait take no time of their
\* own: time passes only when none of them is due.
TimePasses ==
    /\ inflight.op \in {"put", "get"} /\ inflight.ret = ""
    /\ sinceCall < MaxElapsed
    /\ inflight.coord \notin Pending
    /\ ~(Pending # {} /\ Expired(sinceCall))
    /\ ~Waited
    /\ sinceCall' = sinceCall + 1
    /\ UNCHANGED <<inflight, workers, entries, repairs, lastOp, lastPut, restOfCall>>

NextDispatch ==
    \/ \E c \in ClientNodes, k \in Keys, v \in Values, l \in ConsistencyLevels :
          BeginPut(c, k, v, l)
    \/ \E c \in ClientNodes, k \in Keys, l \in ConsistencyLevels : BeginGet(c, k, l)
    \/ \E o \in Outcomes : WorkerLocal(o)
    \/ \E n \in Nodes, o \in Outcomes : WorkerAnswer(n, o)
    \/ \E n \in Nodes : WorkerTimeout(n)
    \/ PutReturns
    \/ GetReturns
    \/ TimePasses

SpecDispatch == InitDispatch /\ [][NextDispatch]_vars

\* The same with the scheduling of the Go runtime: a goroutine that can run
\* does run, a timer that is due fires, and time passes. Nothing makes a
\* remote node answer.
SpecDeadline ==
    /\ InitDispatch
    /\ [][NextDispatch]_vars
    /\ WF_vars(\E o \in Outcomes : WorkerLocal(o))
    /\ WF_vars(\E n \in Nodes : WorkerTimeout(n))
    /\ WF_vars(PutReturns)
    /\ WF_vars(GetReturns)
    /\ WF_vars(TimePasses)

\* ------------------------------------------------------------------------
\* Properties of a call at a coordinator that is being set up (SpecBootstrap)
\* ------------------------------------------------------------------------

\* C25: on a ring with no nodes GetNode and GetNodes return an error and no
\* node, and a Put or Get at the coordinator of that ring returns the error
\* with no replica written or read and no read repair started.
C25_EmptyRingErrorSurfaced ==
    [][(call.op = "none" /\ call'.op \in {"put", "get"} /\ vnodes[call'.coord] = <<>>) =>
         /\ GetNode(vnodes[call'.coord], call'.key).err
         /\ GetNode(vnodes[call'.coord], call'.key).node = ""
         /\ GetNodes(vnodes[call'.coord], call'.key, ReplicationFactor).err
         /\ GetNodes(vnodes[call'.coord], call'.key, ReplicationFactor).nodes = <<>>
         /\ lastOp'.ret = "ring_empty"
         /\ lastOp'.op = call'.op
         /\ entries' = entries
         /\ repairs' = repairs]_vars

\* A Put at a coordinator with an empty ring, every replica being ready to
\* take the write, while the other coordinator has registered nodes.
C25_Witness ==
    /\ call.op = "put"
    /\ vnodes[call.coord] = <<>>
    /\ lastOp.ret = "ring_empty"
    /\ \A n \in Nodes : call.out[n] = "ok"
    /\ \E c \in ClientNodes : nodeVNodes[c] = Nodes

\* ------------------------------------------------------------------------
\* Properties of the vector clocks (SpecClocks)
\* ------------------------------------------------------------------------

\* A <= B in every component, a missing component counting as 0.
ClockLeq(a, b) == \A k \in Nodes : Component(a, k) <= Component(b, k)

\* A and B differ in some component.
ClockDiffers(a, b) == \E k \in Nodes : Component(a, k) # Component(b, k)

\* C26: Compare(A, B) is negative when A <= B componentwise and A differs
\* from B, positive when B <= A and they differ, 0 when neither dominates
\* the other; Compare(A, B) = -Compare(B, A).
C26_CompareIsVectorClockOrder ==
    compared.done =>
        LET a == clocks["n1"]
            b == clocks["n2"]
        IN  /\ (ClockLeq(a, b) /\ ClockDiffers(a, b)) => compared.result < 0
            /\ (ClockLeq(b, a) /\ ClockDiffers(a, b)) => compared.result > 0
            /\ (~ClockLeq(a, b) /\ ~ClockLeq(b, a)) => compared.result = 0
            /\ compared.result = -compared.reverse

\* Compare was called on a clock and a greater clock that has a component
\* the first lacks.
C26_Witness ==
    /\ compared.done
    /\ compared.result = -1 /\ compared.reverse = 1
    /\ DOMAIN clocks["n1"] = {"n1"}
    /\ DOMAIN clocks["n2"] = {"n1", "n2"}
    /\ clocks["n1"]["n1"] = clocks["n2"]["n1"]

\* ------------------------------------------------------------------------
\* Properties of the placement ring (SpecRing)
\* ------------------------------------------------------------------------

TokensFrom(vn, key) ==
    IF \E i \in 1..Len(vn) : vn[i].Hash >= hash(key)
    THEN LET first == CHOOSE i \in 1..Len(vn) :
                         /\ vn[i].Hash >= hash(key)
                         /\ \A j \in 1..Len(vn) : vn[j].Hash >= hash(key) => i <= j
         IN  SubSeq(vn, first, Len(vn)) \o SubSeq(vn, 1, first - 1)
    ELSE vn

\* The place of the first token of a node in a list of tokens.
FirstTokenOf(tokens, nodeID) ==
    CHOOSE i \in 1..Len(tokens) :
        /\ tokens[i].NodeID = nodeID
        /\ \A j \in 1..(i - 1) : tokens[j].NodeID # nodeID

Min(a, b) == IF a <= b THEN a ELSE b

\* C23: on a non-empty ring GetNodes(key, n) returns without error a list
\* of min(n, number of nodes) pairwise distinct nodes of the ring, headed by
\* GetNode(key), in the order in which the walk from the first token with
\* hash >= hash(key), wrapping to the start of the list, first meets them;
\* no node left out is met before a node of the list.
C23_GetNodesWalksTheRing ==
    nodeVNodes[Self] # {} =>
        \A key \in RingKeys, n \in RingCounts :
            LET got == GetNodes(vnodes[Self], key, n)
                tokens == TokensFrom(vnodes[Self], key)
            IN  /\ ~got.err
                /\ Len(got.nodes) = Min(n, Cardinality(nodeVNodes[Self]))
                /\ \A i \in 1..Len(got.nodes) : got.nodes[i] \in nodeVNodes[Self]
                /\ \A i, j \in 1..Len(got.nodes) : i # j => got.nodes[i] # got.nodes[j]
                /\ n >= 1 => got.nodes[1] = GetNode(vnodes[Self], key).node
                /\ n >= 1 => got.nodes[1] = tokens[1].NodeID
                /\ \A i, j \in 1..Len(got.nodes) :
                      i < j => FirstTokenOf(tokens, got.nodes[i])
                                  < FirstTokenOf(tokens, got.nodes[j])
                /\ \A nodeID \in nodeVNodes[Self] \ Range(got.nodes) :
                      \A i \in 1..Len(got.nodes) :
                          FirstTokenOf(tokens, got.nodes[i]) < FirstTokenOf(tokens, nodeID)

\* The ring holds the three nodes, the hash of one key is past the last
\* token, and the walk for another key meets a second token of a node
\* before the first token of the last node.
C23_Witness ==
    /\ nodeVNodes[Self] = Nodes
    /\ Search(vnodes[Self], hash("k3")) > Len(vnodes[Self])
    /\ \E key \in RingKeys :
          LET tokens == TokensFrom(vnodes[Self], key)
          IN  \E i \in 2..Len(tokens) :
                 /\ \E j \in 1..(i - 1) : tokens[j].NodeID = tokens[i].NodeID
                 /\ \E nodeID \in Nodes : FirstTokenOf(tokens, nodeID) > i

\* The token list is sorted by hash and holds VirtualNodes tokens of every
\* node of the ring and none of any other node.
RingSound(ring) ==
    /\ \A i, j \in 1..Len(ring.vnodes) :
          i < j => ring.vnodes[i].Hash <= ring.vnodes[j].Hash
    /\ \A nodeID \in Nodes :
          Cardinality({i \in 1..Len(ring.vnodes) : ring.vnodes[i].NodeID = nodeID})
              = IF nodeID \in ring.nodeVNodes THEN VirtualNodes ELSE 0

\* C24: after every AddNode and RemoveNode call the token list is sorted by
\* hash and holds exactly V tokens of each node of the ring and none of
\* another node; AddNode of a node that is present and RemoveNode of a node
\* that is absent leave the ring as it was.
C24_RingTokensSound ==
    [][/\ RingSound(RingAt(Self))'
       /\ \A nodeID \in Nodes :
             /\ (CallAddNode(nodeID) /\ nodeID \in nodeVNodes[Self])
                    => RingAt(Self)' = RingAt(Self)
             /\ (CallRemoveNode(nodeID) /\ nodeID \notin nodeVNodes[Self])
                    => RingAt(Self)' = RingAt(Self)]_vars

\* A node was added twice, a node that was never added was removed, and
\* after a removal the ring holds two nodes.
C24_Witness ==
    /\ Len(ringCalls) = MaxRingCalls
    /\ \E i \in 1..(Len(ringCalls) - 1) :
          /\ ringCalls[i].op = "add" /\ ringCalls[i + 1] = ringCalls[i]
    /\ \E i \in 1..Len(ringCalls) :
          /\ ringCalls[i].op = "remove"
          /\ \A j \in 1..(i - 1) : ringCalls[j].nodeID # ringCalls[i].nodeID
    /\ Cardinality(nodeVNodes[Self]) = 2

\* The primary owner of a key on a ring: what GetNode returns.
Owner(ring, key) == GetNode(ring.vnodes, key)

C17_GetReturnsLatestOperation ==
    (status = "open" /\ history.ordered) =>
        \A k \in LogKeys :
            LET got == StoreGet(index, dataFile, k)
                w == history.ops[k]
            IN  IF w.op = "put"
                THEN /\ got.err = ""
                     /\ got.Value = w.Value
                     /\ got.Timestamp = w.Timestamp
                     /\ IndexHas(index, k)
                ELSE /\ got.err \in {"not_found", "deleted"}
                     /\ ~IndexHas(index, k)

\* One key was put, deleted and put again, with rising timestamps.
C17_Witness ==
    /\ status = "open" /\ history.ordered
    /\ Len(dataFile) = 3
    /\ \E k \in LogKeys :
          /\ dataFile[1].Key = k /\ ~dataFile[1].IsDeleted
          /\ dataFile[2].Key = k /\ dataFile[2].IsDeleted
          /\ dataFile[3].Key = k /\ ~dataFile[3].IsDeleted
          /\ dataFile[3].Value # dataFile[1].Value

\* C18: after close and reopen of the data directory, get, has, keys and
\* count return for every key what they returned just before the close.
C18_ReopenReturnsTheSame ==
    [][NewBitcask =>
         /\ status' = "open"
         /\ Observe(index', dataFile') = seen]_vars

\* A store reopened after it was closed with a live key and a tombstone.
C18_Witness ==
    /\ status = "open"
    /\ seen = Observe(index, dataFile)
    /\ \E k1, k2 \in LogKeys :
          /\ seen.get[k1].err = "" /\ seen.get[k2].err = "deleted"

\* C19: compaction leaves get of every live key, has and keys as they
\* were; a key that was tombstoned is not observable afterwards; in the new
\* file every live key is at the offset its index entry gives.
C19_CompactKeepsLiveKeys ==
    [][IF history' = history /\ status' = status
       THEN \A order \in Orders(LiveKeys(index)) :
              Compact(order) =>
                /\ \A k \in LogKeys :
                      /\ IndexHas(index', k) = IndexHas(index, k)
                      /\ IndexHas(index, k) =>
                            /\ StoreGet(index', dataFile', k) = StoreGet(index, dataFile, k)
                            /\ dataFile'[index'.entries[k].Offset].Key = k
                      /\ ~IndexHas(index, k) => StoreGet(index', dataFile', k).err # ""
                /\ IndexKeys(index') = IndexKeys(index)
       ELSE TRUE]_vars

\* C20: when a record of the file fails its CRC check or the tail is a
\* partial record, NewBitcask succeeds, the index holds exactly the records
\* before that record, and the file is cut at its offset.
C20_RecoveryStopsAtBadRecord ==
    [][(NewBitcask /\ FirstBad(dataFile) # 0) =>
         LET good == SubSeq(dataFile, 1, FirstBad(dataFile) - 1)
         IN  /\ status' = "open"
             /\ index' = rebuildIndex(good).index
             /\ dataFile' = good]_vars

\* C21: under concurrent Get calls and one writer, a Get of key k that
\* returns a value returns the value and timestamp of a whole record that
\* was written for k.
C21_GetReturnsRecordOfItsKey ==
    \A r \in Readers :
        (readers[r].pc = "idle" /\ readers[r].err = "") =>
            \E i \in 1..Len(dataFile) :
                /\ dataFile[i].Key = readers[r].Key
                /\ ~dataFile[i].IsDeleted
                /\ dataFile[i].state = "ok"
                /\ dataFile[i].Value = readers[r].Value
                /\ dataFile[i].Timestamp = readers[r].Timestamp

\* C37: while the store is open, the active counter of the index is the
\* number of keys whose entry is not a tombstone and its deleted counter is
\* the number of tombstones, so that Count and Stats agree with Keys.
C37_CountersMatchEntries ==
    status = "open" =>
        /\ index.active = Cardinality(LiveKeys(index))
        /\ index.deleted =
              Cardinality({k \in LogKeys : index.entries[k].exists
                                           /\ index.entries[k].IsDeleted})
        /\ ~IndexKeys(index).panic
        /\ IndexCount(index) = Cardinality(IndexKeys(index).keys)

\* C38: when an I/O step of Compact fails, the data file and the index are
\* as before, the engine still accepts calls, and Get returns for every key
\* what it returned before the compaction.
C38_FailedCompactLeavesEngineUsable ==
    [][\A step \in CompactSteps, order \in Orders(LiveKeys(index)) :
         CompactFails(step, order) =>
           /\ dataFile' = dataFile
           /\ index' = index
           /\ status' = "open"
           /\ \A k \in LogKeys :
                 EngineGet(status', index', dataFile', k) = StoreGet(index, dataFile, k)]_vars

\* ------------------------------------------------------------------------
\* Properties of the gossip layer (SpecGossip)
\* ------------------------------------------------------------------------

\* C13: when a gossip datagram is received from a peer that is suspect or
\* dead, the peer becomes alive and the state-change callback fires exactly
\* with (peer, old state, alive); a peer revived from dead is back in the
\* ring.
C13_HeartbeatRevivesWithCallback ==
    [][\A m \in msgs :
         LET oldState == members[m.to][m.FromNode].State
         IN  ( /\ handleMessage(m)
               /\ members[m.to][m.FromNode].known
               /\ oldState \in {"suspect", "dead"} )
             => /\ members'[m.to][m.FromNode].State = "alive"
                /\ fired'[m.to] = << <<m.FromNode, oldState, "alive">> >>
                /\ oldState = "dead" => m.FromNode \in nodeVNodes'[m.to]]_vars

\* The transition the state machine of the detector prescribes for a peer
\* in the given state with the given heartbeat silence.
Prescribed(state, silence) ==
    IF state = "alive" /\ silence > suspectTimeout THEN "suspect"
    ELSE IF state = "suspect" /\ silence > deadTimeout THEN "dead"
    ELSE state

\* The callbacks of a pass over a peer that goes from oldState to newState.
Callbacks(p, oldState, newState) ==
    IF newState = oldState THEN <<>> ELSE << <<p, oldState, newState>> >>

\* C14: when the detector visits a peer on a tick, an alive peer silent for
\* more than suspectTimeout becomes suspect, a suspect peer silent for more
\* than deadTimeout becomes dead, no other peer changes state (so none goes
\* from alive to dead), and the callback fires exactly once per transition
\* with the peer, the old state and the new state. The state and silence of
\* the peer are taken either as they were when the tick began or as they
\* are when the peer is visited.
C14_DetectorTransitions ==
    [][\A n \in Nodes :
         checkNext(n) =>
           LET member == Head(detector[n])
               p == member.ID
               atTick == Prescribed(member.State, member.now - member.LastHeartbeat)
               atVisit == Prescribed(members[n][p].State,
                                     now - members[n][p].LastHeartbeat)
           IN  /\ \A q \in Nodes \ {p} : members'[n][q].State = members[n][q].State
               /\ \/ /\ members'[n][p].State = atTick
                     /\ fired'[n] = Callbacks(p, member.State, atTick)
                  \/ /\ members'[n][p].State = atVisit
                     /\ fired'[n] = Callbacks(p, members[n][p].State, atVisit)]_vars

\* C15: a peer that is dead at node n, its death callback having run, is
\* in no preference list node n computes, for as long as it stays dead.
C15_DeadPeerNotInPreferenceList ==
    \A n, p \in Nodes :
        (p # n /\ members[n][p].known /\ members[n][p].State = "dead")
        => \A k \in Keys :
              p \notin Range(GetNodes(vnodes[n], k, ReplicationFactor).nodes)

\* The detector of Self has just marked a peer dead that Self had registered
\* and placed on its ring, and the preference list of a key is computed.
C15_Witness ==
    \E p \in Nodes \ {Self}, k \in Keys :
        /\ nodes[Self][p] # "none"
        /\ members[Self][p].State = "dead"
        /\ fired[Self] = << <<p, "suspect", "dead">> >>
        /\ ~GetNodes(vnodes[Self], k, ReplicationFactor).err
        /\ p \notin Range(GetNodes(vnodes[Self], k, ReplicationFactor).nodes)

\* C40: the detector of node n moves a peer to suspect or to dead only if,
\* at the moment the state is changed, the last heartbeat recorded for the
\* peer is older than the timeout of that transition; a heartbeat recorded
\* after the detector copied the membership table is not overridden.
C40_TransitionOnlyWhenStillSilent ==
    [][\A n \in Nodes : \A p \in Nodes \ {n} :
         ( /\ checkNext(n)
           /\ members'[n][p].State # members[n][p].State
           /\ members'[n][p].State \in {"suspect", "dead"} )
         => now - members[n][p].LastHeartbeat >
               (IF members'[n][p].State = "suspect" THEN suspectTimeout
                ELSE deadTimeout)]_vars

\* ------------------------------------------------------------------------
\* Properties of the cluster main starts (SpecCluster)
\* ------------------------------------------------------------------------

\* C12: in a cluster of three nodes started with seed addresses, after a
\* put of a key through one node has returned success, a get of the key
\* through each of the other two nodes returns the written value.
C12_PutVisibleThroughOtherNodes ==
    [][\A c \in Nodes, l \in ConsistencyLevels :
         ( /\ call.op = "put"
           /\ c # call.coord
           /\ Get(c, call.key, l, AllOk) )
         => /\ lastOp'.ret = "ok"
            /\ lastOp'.Value = call.Value]_vars

\* ------------------------------------------------------------------------
\* Properties of discovery (SpecDiscovery)
\* ------------------------------------------------------------------------

\* C16: when each node lists the nodes started before it as seeds and
\* datagrams are delivered, the membership list of every node eventually
\* contains every other node.
C16_DiscoveryComplete ==
    <>(\A n, p \in Nodes : members[n][p].known)

\* ------------------------------------------------------------------------
\* Properties of a call and its read repair (SpecRepair)
\* ------------------------------------------------------------------------

\* C11: if a reachable replica of the preference list holds a value with a
\* lower timestamp than the winner of a successful quorum read, or no value,
\* then, with no further writes, its store eventually holds the winning
\* value with the winner's timestamp.
C11_ReadRepairConverges ==
    \A n \in Nodes :
        ( /\ call.op = "get" /\ call.level = "quorum" /\ lastOp.ret = "ok"
          /\ n \in Range(call.pref)
          /\ call.out[n] = "ok"
          /\ \/ ~entries[n][call.key].exists
             \/ /\ ~entries[n][call.key].IsDeleted
                /\ entries[n][call.key].Timestamp < lastOp.Timestamp )
        ~> ( /\ call.op = "get"
             /\ entries[n][call.key].exists
             /\ ~entries[n][call.key].IsDeleted
             /\ entries[n][call.key].Value = lastOp.Value
             /\ entries[n][call.key].Timestamp = lastOp.Timestamp )

\* A successful quorum read has just returned while a reachable remote
\* replica holds an older value and another holds none.
C11_Witness ==
    /\ call.op = "get" /\ call.level = "quorum" /\ lastOp.ret = "ok"
    /\ \E r \in repairs : r.todo = call.pref
    /\ \E n, m \in Range(call.pref) \ {call.coord} :
          /\ call.out[n] = "ok" /\ call.out[m] = "ok"
          /\ ~entries[n][call.key].exists
          /\ entries[m][call.key].exists /\ ~entries[m][call.key].IsDeleted
          /\ entries[m][call.key].Timestamp < lastOp.Timestamp

\* ------------------------------------------------------------------------
\* Properties of the hinted handoff (SpecHandoff)
\* ------------------------------------------------------------------------

\* C9: every hint stored for a target is delivered by the replay loop unless
\* it is first retired by age, attempt cap or eviction, and a delivered hint
\* is removed from the buffer: so a stored hint is at any time still
\* buffered, or in the copy the running pass is working through, or
\* delivered, or retired; and no delivered hint is buffered.
C9_HintDeliveredUnlessRetired ==
    /\ \A id \in 1..stored :
          \/ \E t \in Nodes : id \in Ids(hints[t])
          \/ pass.pc = "hints" /\ id \in Ids(pass.hints)
          \/ id \in delivered
          \/ id \in retired
    /\ \A id \in delivered : \A t \in Nodes : id \notin Ids(hints[t])

\* C10: a hint whose age exceeds maxAge is never sent to its target: no
\* iteration of the replay loop sends a hint with now - CreatedAt > maxAge.
C10_ExpiredHintNeverSent ==
    [][(pass.pc = "hints" /\ pass.hints # <<>> /\ pass'.hints = Tail(pass.hints))
          => now - Head(pass.hints).CreatedAt <= maxAge]_vars

\* ------------------------------------------------------------------------
\* Properties of the coordinators and replicas (Spec)
\* ------------------------------------------------------------------------

\* C1: with W + R > N and an unchanged preference list of N replicas, after
\* a Put of v at level quorum returned success and with no further write to
\* the key, a Get at level quorum that returns a value returns v or a value
\* with a higher timestamp.
C1_QuorumMonotonicReads ==
    [][\A k \in Keys :
          ( /\ WriteQuorum + ReadQuorum > ReplicationFactor
            /\ lastPut[k].exists
            /\ lastOp'.op = "get" /\ lastOp'.key = k /\ lastOp'.ret = "ok"
            /\ \E c \in ClientNodes, out \in [Nodes -> Outcomes] :
                   Get(c, k, "quorum", out) )
          => \/ /\ lastOp'.Value = lastPut[k].Value
                /\ lastOp'.Timestamp = lastPut[k].Timestamp
             \/ lastOp'.Timestamp > lastPut[k].Timestamp]_vars

\* C2: at every replica and for every key the stored timestamp never
\* decreases, whatever writes the replica receives and in whatever order.
C2_StoredTimestampNeverDecreases ==
    [][\A n \in Nodes, k \in Keys :
          entries[n][k].exists
              => /\ entries'[n][k].exists
                 /\ entries'[n][k].Timestamp >= entries[n][k].Timestamp]_vars

\* C3: a tombstone is ordered like a live record: while a replica holds a
\* tombstone newer than every live record of the key on the other replicas,
\* a Get does not return a live value, and a step of read repair does not
\* replace the tombstone with an older live value.
C3_TombstoneOrderedLikeLiveRecord ==
    [][\A n \in Nodes, k \in Keys :
          ( /\ entries[n][k].exists /\ entries[n][k].IsDeleted
            /\ \A m \in Nodes \ {n} :
                   (entries[m][k].exists /\ ~entries[m][k].IsDeleted)
                       => entries[m][k].Timestamp < entries[n][k].Timestamp )
          => /\ (lastOp' # lastOp /\ lastOp'.op = "get" /\ lastOp'.key = k)
                    => lastOp'.ret # "ok"
             /\ (repairs' # repairs /\ lastOp' = lastOp)
                    => ~( /\ ~entries'[n][k].IsDeleted
                          /\ entries'[n][k].Timestamp < entries[n][k].Timestamp )]_vars

\* ------------------------------------------------------------------------
\* Properties of one client call (SpecCall)
\* ------------------------------------------------------------------------

C6_GetReturnsLatestFound ==
    (call.op = "get" /\ lastOp.ret = "ok") =>
        LET found == {n \in Range(call.pref) :
                        /\ call.out[n] = "ok"
                        /\ entries[n][call.key].exists
                        /\ ~entries[n][call.key].IsDeleted}
        IN  \E n \in found :
              /\ entries[n][call.key].Value = lastOp.Value
              /\ entries[n][call.key].Timestamp = lastOp.Timestamp
              /\ \A m \in found :
                    entries[n][call.key].Timestamp >= entries[m][call.key].Timestamp

\* A successful Get whose found responses carry different timestamps.
C6_Witness ==
    /\ call.op = "get"
    /\ lastOp.ret = "ok"
    /\ \E n, m \in Range(call.pref) :
          /\ call.out[n] = "ok" /\ call.out[m] = "ok"
          /\ entries[n][call.key].exists /\ ~entries[n][call.key].IsDeleted
          /\ entries[m][call.key].exists /\ ~entries[m][call.key].IsDeleted
          /\ entries[n][call.key].Timestamp < entries[m][call.key].Timestamp
          /\ lastOp.Timestamp = entries[m][call.key].Timestamp

\* C7: a client delete is coordinated like a put: after a successful delete
\* at level quorum at least W replicas of the key's preference list hold the
\* tombstone with the timestamp chosen for the delete.
C7_DeleteReachesWriteQuorum ==
    (call.op = "delete" /\ call.level = "quorum" /\ lastOp.ret = "ok") =>
        Cardinality({n \in Range(GetNodes(vnodes[call.coord], call.key,
                                          ReplicationFactor).nodes) :
                        /\ entries[n][call.key].exists
                        /\ entries[n][call.key].IsDeleted
                        /\ entries[n][call.key].Timestamp = now}) >= WriteQuorum

\* C8: for every Coordinator.Put, each preference-list replica whose write
\* failed has a hint carrying the written record in the hinted handoff
\* buffer of the coordinator, under that target.
C8_FailedReplicaHasHint ==
    (call.op = "put" /\ call.coord = Self) =>
        \A n \in Range(call.pref) :
            call.out[n] # "ok" =>
                \E i \in 1..Len(hints[n]) :
                    hints[n][i].Entry = KeyValueEntry(call.key, call.Value, now, FALSE)


\* ------------------------------------------------------------------------
\* Properties of a client call in progress (SpecDispatch, SpecDeadline)
\* ------------------------------------------------------------------------

\* The call in progress has returned to its caller.
Replied == inflight.ret # ""

\* C27: every Coordinator.Put and Coordinator.Get call returns, and no later
\* than its deadline: a call that has not returned is never past the
\* deadline, a call that returned did so by the deadline, and with too few
\* successes it returned QuorumFailed (Put) or NotFound (Get), also when a
\* replica never answers.
C27_ReturnsByDeadline ==
    /\ []((inflight.op # "none" /\ ~Replied) => sinceCall <= RequestTimeout)
    /\ [](Replied => inflight.at <= RequestTimeout)
    /\ []((Replied /\ inflight.op = "put" /\ inflight.pref # <<>>) =>
             (inflight.ret = "quorum_failed"
                 <=> Cardinality(Acked) < getWriteQuorum(inflight.level)))
    /\ []((Replied /\ inflight.op = "get" /\ inflight.pref # <<>>) =>
             (inflight.ret = "not_found"
                 <=> Cardinality(Acked) < getReadQuorum(inflight.level)))
    /\ ((inflight.op # "none") ~> Replied)

\* A call returned its failure at the deadline: a replica that never
\* answered was given up.
C27_Witness ==
    /\ inflight.ret \in {"quorum_failed", "not_found"}
    /\ inflight.at = RequestTimeout
    /\ \E n \in Dispatched : n # inflight.coord /\ workers[n].pc = "fail"

\* C28: once the successes of a Put have reached the number its level
\* requires, the Put returns without waiting: no time passes between the
\* last needed success and the return, whatever the other replicas do.
C28_PutRepliesAtQuorum ==
    [][(/\ inflight.op = "put"
        /\ ~Replied
        /\ Cardinality(Acked) >= getWriteQuorum(inflight.level))
           => sinceCall' = sinceCall]_vars


\* ------------------------------------------------------------------------
\* Properties of the choice among tied responses (SpecCall)
\* ------------------------------------------------------------------------

\* The values a Get of the recorded call can return when its replicas are
\* listed in the order pref: the values of the responses the sort can leave
\* in element 0.
ReadValues(pref) ==
    {latest.Value : latest \in
        Latest(successfulResponses(readFromNodes(call.coord, pref, call.key, call.out)))}

\* C29: found responses that tie on the maximum timestamp with different
\* values are told apart by the byte order of their values: the value a
\* successful Get returned is the value every read over the same replica
\* records returns, in whatever order the replicas are listed or respond.
C29_TieBrokenByValue ==
    (call.op = "get" /\ lastOp.ret = "ok") =>
        \A pref \in Orders(Range(call.pref)) : ReadValues(pref) = {lastOp.Value}


\* ------------------------------------------------------------------------
\* Properties of a node's own membership entry (SpecSelf)
\* ------------------------------------------------------------------------

\* C30: in every reachable membership state the entry of the node itself is
\* a member in state alive: no detector tick, no datagram received and no
\* merge changes its state or ages it out.
C30_SelfAlwaysAlive ==
    /\ members[Self][Self].known
    /\ members[Self][Self].State = "alive"

\* The node has been silent to itself for longer than deadTimeout while its
\* detector marked a peer dead, and the last datagram merged listed the
\* node itself as dead.
C30_Witness ==
    /\ now - members[Self][Self].LastHeartbeat > deadTimeout
    /\ \E p \in Nodes \ {Self} : members[Self][p].known /\ members[Self][p].State = "dead"
    /\ \E t \in Range(fired[Self]) : t[3] = "dead"
    /\ heard.self.known /\ heard.self.State = "dead"


\* ------------------------------------------------------------------------
\* Properties of the writes of read repair (SpecRepairWrites)
\* ------------------------------------------------------------------------

\* What node n answered the Get of the recorded call.
Answered(n) == readFromNodes(call.coord, <<n>>, call.key, call.out)[1]

\* C31: after a successful Get, read repair issues a write, carrying the
\* winning record with its timestamp, to each node of the preference list
\* that answered with a lower timestamp or with no data, and no write to a
\* node that answered with the winning record.
C31_RepairOnlyStalePeers ==
    [][(repairs # {} /\ repairs' # repairs) =>
          \E r \in repairs :
            LET n == Head(r.todo)
                a == Answered(n)
            IN  /\ (~a.found \/ a.Timestamp < r.latest.Timestamp) =>
                       issued' = issued \cup {[to |-> n, Entry |-> r.latest]}
                /\ (a.found /\ a.Timestamp = r.latest.Timestamp
                            /\ a.Value = r.latest.Value) =>
                       issued' = issued]_vars


\* ------------------------------------------------------------------------
\* Properties of the hint buffer (SpecHandoff)
\* ------------------------------------------------------------------------

\* C32: a hint leaves the buffer only by its own delivery, by age, by the
\* attempt cap or by eviction from a full queue: every hint that a step
\* takes out of the buffer is delivered or retired by that step, also when
\* hints of one target and key coexist and Store runs during a replay pass.
C32_HintLeavesOnlyDeliveredOrRetired ==
    [][\A t \in Nodes : \A id \in Ids(hints[t]) \ Ids(hints'[t]) :
          id \in delivered' \cup retired']_vars


\* C33: no target ever has more than maxSize buffered hints, and the hints
\* of a target are buffered in the order they were stored; a Store on a
\* full queue drops the oldest hint of the target and appends the new one,
\* a Store on any other queue only appends.
C33_QueueBoundedFifo ==
    /\ [](\A t \in Nodes :
            /\ Len(hints[t]) <= maxSize
            /\ \A i, j \in 1..Len(hints[t]) : i < j => hints[t][i].id < hints[t][j].id)
    /\ [][stored' = stored + 1 =>
            \E t \in {u \in Nodes : hints'[u] # <<>>} :
               /\ hints'[t] = Append(IF Len(hints[t]) >= maxSize THEN Tail(hints[t])
                                     ELSE hints[t],
                                     hints'[t][Len(hints'[t])])
               /\ hints'[t][Len(hints'[t])].id = stored + 1
               /\ \A u \in Nodes \ {t} : hints'[u] = hints[u]]_vars

\* A Store found the queue of its target full: the oldest hint, not yet
\* aged, has gone and the two newest are buffered in order.
C33_Witness ==
    /\ stored = maxSize + 1
    /\ \E t \in Nodes :
          /\ Len(hints[t]) = maxSize
          /\ hints[t][1].id = 2 /\ hints[t][maxSize].id = stored
          /\ hints[t][1].CreatedAt = now
    /\ 1 \in retired /\ 1 \notin delivered


\* The buffered hint with the given id, as a set of at most one hint.
Buffered(hs, id) == {h \in UNION {Range(hs[t]) : t \in Nodes} : h.id = id}

\* C34: a failed delivery attempt adds one to the attempts counter of the
\* hint that was sent, and the hint is discarded by the attempt that takes
\* its counter above AttemptCap: after a failed attempt on a buffered hint
\* the hint is buffered with one attempt more and at most AttemptCap
\* attempts, or it has been discarded with its counter above AttemptCap, so
\* that no hint is sent more than AttemptCap + 1 times.
C34_AttemptsCountedAndCapped ==
    [][(/\ pass.pc = "hints" /\ pass.hints # <<>>
        /\ pass'.hints = Tail(pass.hints)
        /\ delivered' = delivered
        /\ Buffered(hints, Head(pass.hints).id) # {})
          => \A h \in Buffered(hints, Head(pass.hints).id) :
                IF h.Attempts + 1 > AttemptCap
                THEN Buffered(hints', h.id) = {}
                ELSE Buffered(hints', h.id) = {[h EXCEPT !.Attempts = @ + 1]}]_vars


\* ------------------------------------------------------------------------
\* Properties of the replay loop beside the failure detector (SpecReplay)
\* ------------------------------------------------------------------------

\* C35: the replay loop sends a hint only to a target that the membership
\* view of the node holds as alive when the hint is sent; the hints of a
\* target held as suspect, dead or unknown are not sent.
C35_NoReplayToTargetNotAlive ==
    [][(pass.pc = "hints" /\ pass.hints # <<>> /\ pass'.hints = Tail(pass.hints))
          => /\ members[Self][pass.target].known
             /\ members[Self][pass.target].State = "alive"]_vars


\* ------------------------------------------------------------------------
\* Properties of the merge of a membership map (SpecMerge)
\* ------------------------------------------------------------------------

\* How bad a state is: alive, then suspect, then dead.
Badness(state) ==
    IF state = "alive" THEN 0 ELSE IF state = "suspect" THEN 1 ELSE 2

\* C36: merging a received membership map never decreases the last
\* heartbeat of a known member, never makes the state of a known member
\* worse, never modifies the entry of the node itself, never forgets a
\* member, and inserts each unknown id the map names with the state and the
\* last_seen the map supplies.
C36_MergeKeepsKnownInsertsUnknown ==
    [][\A m \in msgs :
         MergeCall(m) =>
           LET old == members[m.to]
               new == members'[m.to]
           IN  /\ new[m.to] = old[m.to]
               /\ \A p \in Nodes \ {m.to} :
                     /\ old[p].known =>
                           /\ new[p].known
                           /\ new[p].LastHeartbeat >= old[p].LastHeartbeat
                           /\ Badness(new[p].State) <= Badness(old[p].State)
                     /\ (~old[p].known /\ m.Members[p].known) =>
                           /\ new[p].known
                           /\ String(new[p].State) = m.Members[p].State
                           /\ new[p].LastHeartbeat = m.Members[p].LastSeen
                     /\ (~old[p].known /\ ~m.Members[p].known) => ~new[p].known]_vars

\* A map that spoke of the node itself, of a member held alive whose
\* heartbeat it advanced, and of an unknown node it inserted as dead, has
\* been merged.
C36_Witness ==
    /\ msgs = {}
    /\ heard.self.known /\ heard.self.State = "dead"
    /\ members[Self][Self] = [known |-> TRUE, State |-> "alive", LastHeartbeat |-> 0]
    /\ members[Self]["n2"] = [known |-> TRUE, State |-> "alive", LastHeartbeat |-> MaxClock]
    /\ members[Self]["n3"] = [known |-> TRUE, State |-> "dead", LastHeartbeat |-> MaxClock]

=============================================================================
